---------------------------- MODULE Spec2Model ----------------------------
(***************************************************************************)
(* Model of the numerical core of the Raikoke plotting scripts             *)
(* (Figure3.py, Figure4.py, Figure5.py): the latitude-weighted area        *)
(* average, the cross-grid mask and the e-folding time estimator.          *)
(*                                                                         *)
(* One behaviour is one run of one script.  Init is the state after the    *)
(* np.load calls of that script; every later statement of the script that  *)
(* computes something is one action.  A script that raises stops in        *)
(* pc = "error" with the exception's name in err.                          *)
(*                                                                         *)
(* Numbers are binary floating-point numbers of Precision significant bits *)
(* (53 in the float64 of the scripts) whose finest spacing is 1; every     *)
(* product, sum and quotient is rounded to the nearest such number, ties   *)
(* to even.  The three non-finite floats are the values NaN, Inf, NegInf.  *)
(***************************************************************************)
EXTENDS Integers, Sequences, FiniteSets, TLC

VARIABLES fig, pc, err,
          \* inputs (np.load)
          caliop, omps, omps_lon_averaged, so2_ash, so2_only,
          so2_ash_omps, so2_only_omps, so2_ash_caliop, so2_only_caliop,
          \* Figure5.py, Figure3.py: the averages
          caliop_mean, caliop_area_average, omps_area_average,
          \* Figure3.py: e_folding_time's frame and the three results
          epc, data, data_copy, x_max, x_e,
          omps_e_time, so2_ash_e_time, so2_only_e_time,
          \* Figure4.py: the mask and the masked fields
          mask, so2_ash_omps_limits, so2_only_omps_limits,
          so2_ash_caliop_limits, so2_only_caliop_limits,
          \* Figure8.py: inputs, the two masks and the masked fields
          so2_ash_550, so2_ash_865, so2_only_550, so2_only_865,
          omps_510, omps_869,
          mask510, mask869,
          so2_ash_550_masked, so2_ash_865_masked,
          so2_only_550_masked, so2_only_865_masked,
          \* Figure7.py: the two masks and the combined masked fields
          calipso_mask, omps_mask, so2_ash_masked, so2_only_masked,
          \* Figure1.py, Figure2.py: the panel loop (the values its iterator
          \* has given, its variable i, ind) and the subplots and titles it
          \* has issued
          loop_it, loop_i, ind, subplots, titles

inputs == <<caliop, omps, omps_lon_averaged, so2_ash, so2_only,
            so2_ash_omps, so2_only_omps, so2_ash_caliop, so2_only_caliop,
            so2_ash_550, so2_ash_865, so2_only_550, so2_only_865,
            omps_510, omps_869>>
averages == <<caliop_mean, caliop_area_average, omps_area_average>>
frame == <<epc, data, data_copy, x_max, x_e>>
etimes == <<omps_e_time, so2_ash_e_time, so2_only_e_time>>
masked == <<mask, so2_ash_omps_limits, so2_only_omps_limits,
            so2_ash_caliop_limits, so2_only_caliop_limits>>

masked8 == <<mask510, mask869, so2_ash_550_masked, so2_ash_865_masked,
             so2_only_550_masked, so2_only_865_masked>>
masked7 == <<calipso_mask, omps_mask, so2_ash_masked, so2_only_masked>>
panels == <<loop_it, loop_i, ind, subplots, titles>>
others == <<masked8, masked7, panels>>

vars == <<fig, pc, err, inputs, averages, frame, etimes, masked, others>>

---------------------------------------------------------------------------
(* Floating-point values.                                                  *)

NaN == 999999
Inf == 888888
NegInf == -888888

\* A value not yet assigned by the script.
Unset == <<>>

isnan(x) == x = NaN
isfinite(x) == x \notin {NaN, Inf, NegInf}

Abs(x) == IF x < 0 THEN -x ELSE x

\* Significant bits of a float.
Precision == 10

RECURSIVE Pow2(_)
Pow2(n) == IF n = 0 THEN 1 ELSE 2 * Pow2(n - 1)

\* The spacing of the floats around the magnitude q < 2^31: 1 below
\* 2^Precision = 1024, and 2^(b - Precision) for a magnitude of b bits.
Spacing(q) ==
    IF q < 1048576
    THEN IF q < 32768
         THEN IF q < 4096
              THEN IF q < 2048
                   THEN IF q < 1024
                        THEN 1
                        ELSE 2
                   ELSE 4
              ELSE IF q < 16384
                   THEN IF q < 8192
                        THEN 8
                        ELSE 16
                   ELSE 32
         ELSE IF q < 262144
              THEN IF q < 131072
                   THEN IF q < 65536
                        THEN 64
                        ELSE 128
                   ELSE 256
              ELSE IF q < 524288
                   THEN 512
                   ELSE 1024
    ELSE IF q < 67108864
         THEN IF q < 8388608
              THEN IF q < 4194304
                   THEN IF q < 2097152
                        THEN 2048
                        ELSE 4096
                   ELSE 8192
              ELSE IF q < 33554432
                   THEN IF q < 16777216
                        THEN 16384
                        ELSE 32768
                   ELSE 65536
         ELSE IF q < 536870912
              THEN IF q < 268435456
                   THEN IF q < 134217728
                        THEN 131072
                        ELSE 262144
                   ELSE 524288
              ELSE IF q < 1073741824
                   THEN 1048576
                   ELSE 2097152

\* The multiple of the spacing sp nearest to m * sp + r / (den \div sp),
\* 0 <= r < den: round to nearest, ties to even.
NearestFloat(m, r, den, sp) ==
    (IF 2 * r > den \/ (2 * r = den /\ m % 2 = 1) THEN m + 1 ELSE m) * sp

RoundAt(a, den, sp) == NearestFloat(a \div den, a % den, den, sp)

\* The float nearest to the rational n / d, d > 0.
RoundRatio(n, d) ==
    IF n < 0 THEN -RoundAt(-n, d * Spacing((-n) \div d), Spacing((-n) \div d))
    ELSE RoundAt(n, d * Spacing(n \div d), Spacing(n \div d))

\* Float sum, product and quotient of finite numbers (d # 0).
FAdd(x, y) == RoundRatio(x + y, 1)
FMul(x, y) == RoundRatio(x * y, 1)
FDiv(n, d) == IF d < 0 THEN RoundRatio(-n, -d) ELSE RoundRatio(n, d)

\* Float product x * y (IEEE 754).
Mul(x, y) ==
    IF isnan(x) \/ isnan(y) THEN NaN
    ELSE IF isfinite(x) /\ isfinite(y) THEN FMul(x, y)
    ELSE IF x = 0 \/ y = 0 THEN NaN
    ELSE IF (x > 0) = (y > 0) THEN Inf ELSE NegInf

\* acc + s[lo] + ... + s[hi], added one after the other as the reduction
\* along axis 0 adds them (each partial sum is a value before the next
\* addition), and the sum of a whole sequence.
RECURSIVE SumSub(_, _, _, _)
SumSub(s, lo, hi, acc) ==
    IF lo > hi THEN acc
    ELSE LET a == FAdd(acc, s[lo])
         IN  IF a \in Int THEN SumSub(s, lo + 1, hi, a) ELSE a
SumSeq(s) == SumSub(s, 1, Len(s), 0)

---------------------------------------------------------------------------
(* Bounds of the model.                                                    *)

\* Day columns of a field that is averaged and not searched (366 in the
\* source files).
NDays == 2

\* The greatest constant the weights are multiplied by.
MaxScale == 3

---------------------------------------------------------------------------
(* The latitude axis and its weights.                                      *)

LatMin == -90
LatMax == 90
BandStart == 120

\* latitude = range(-90, 91)
latitude == [i \in 1..(LatMax - LatMin + 1) |-> LatMin + i - 1]

\* 1000 * cos(phi degrees), rounded up, for phi = 0..90.  The float
\* cos(pi/2) is 6.1e-17, not 0: it rounds up to 1.
CosMilli ==
    << 1000, 1000, 1000, 999, 998, 997, 995, 993, 991, 988,
       985, 982, 979, 975, 971, 966, 962, 957, 952, 946,
       940, 934, 928, 921, 914, 907, 899, 892, 883, 875,
       867, 858, 849, 839, 830, 820, 810, 799, 789, 778,
       767, 755, 744, 732, 720, 708, 695, 682, 670, 657,
       643, 630, 616, 602, 588, 574, 560, 545, 530, 516,
       501, 485, 470, 454, 439, 423, 407, 391, 375, 359,
       343, 326, 310, 293, 276, 259, 242, 225, 208, 191,
       174, 157, 140, 122, 105, 88, 70, 53, 35, 18, 1 >>

\* Mutant of weighting: every latitude has the weight of the equator.
weighting_uniform == [i \in DOMAIN latitude |-> CosMilli[1]]

\* Mutant of weighting: the cosine of 90 degrees is 0 exactly.
weighting_zero_pole ==
    [i \in DOMAIN latitude |->
       IF Abs(latitude[i]) = LatMax THEN 0 ELSE CosMilli[Abs(latitude[i]) + 1]]

\* weighting = np.cos(np.deg2rad(latitude))
weighting == [i \in DOMAIN latitude |-> CosMilli[Abs(latitude[i]) + 1]]

\* Mutant of SliceFrom: a start beyond the end is moved to the last place
\* instead of giving the empty slice.
SliceFromClamped(a, k) ==
    IF Len(a) = 0 THEN a
    ELSE [i \in 1..(IF Len(a) > k THEN Len(a) - k ELSE 1) |->
            a[IF Len(a) > k THEN i + k ELSE Len(a)]]

\* a[k:] of Python, for a sequence a and k >= 0.
SliceFrom(a, k) ==
    [i \in 1..(IF Len(a) > k THEN Len(a) - k ELSE 0) |-> a[i + k]]

---------------------------------------------------------------------------
(* numpy.ma: a masked array is its data and its mask.                      *)

\* np.ma.masked_invalid(a) for a 2-D array a (a sequence of rows).
masked_invalid(a) ==
    [data |-> a,
     mask |-> [i \in DOMAIN a |-> [j \in DOMAIN a[i] |-> ~isfinite(a[i][j])]]]

\* Number of columns of the 2-D field the band was cut from.
NCols(F) == IF Len(F) = 0 THEN 0 ELSE Len(F[1])

\* Mutant of average_raises: the length of the weights is not checked.
average_never_raises(a, weights) == FALSE

\* np.ma.average raises ValueError when the weights do not fit the axis.
average_raises(a, weights) == Len(weights) # Len(a.data)

\* Mutant of avg_wgt: a masked sample keeps its weight in the divisor.
avg_wgt_unmasked(a, weights, i, j) == weights[i]

\* wgt = wgt * (~a.mask): the weight of a masked sample is 0.
avg_wgt(a, weights, i, j) == IF a.mask[i][j] THEN 0 ELSE weights[i]

\* Mutant of avg_scl: the divisor is the number of samples that count.
avg_scl_count(a, weights, j) ==
    SumSeq([i \in DOMAIN a.data |-> IF a.mask[i][j] THEN 0 ELSE 1])

\* scl = wgt.sum(axis = 0) at column j.
avg_scl(a, weights, j) ==
    SumSeq([i \in DOMAIN a.data |-> avg_wgt(a, weights, i, j)])

\* Mutant of avg_num: the samples are added without their weights.
avg_num_unweighted(a, weights, j) ==
    SumSeq([i \in DOMAIN a.data |-> IF a.mask[i][j] THEN 0 ELSE a.data[i][j]])

\* np.multiply(a, wgt).sum(axis = 0) at column j: a masked sample adds 0.
avg_num(a, weights, j) ==
    SumSeq([i \in DOMAIN a.data |->
              IF a.mask[i][j] THEN 0
              ELSE FMul(a.data[i][j], avg_wgt(a, weights, i, j))])

\* The mask of the result at column j: every sample of the column masked
\* (or a zero divisor).
avg_mask(a, weights, j) ==
    (\A i \in DOMAIN a.data : a.mask[i][j]) \/ avg_scl(a, weights, j) = 0

\* Mutant of ma_average: the weighted sum is not divided by the sum of the
\* weights.
ma_weighted_sum(a, weights, ncols) ==
    LET m == [j \in 1..ncols |-> avg_mask(a, weights, j)]
    IN  [ma |-> TRUE,
         data |-> [j \in 1..ncols |->
                     IF m[j] THEN 0 ELSE avg_num(a, weights, j)],
         mask |-> m]

\* np.ma.average(a, axis = 0, weights = weights), a masked array of one
\* value per column.  The data under a masked result is the 0.0 that the
\* masked sum holds.
ma_average(a, weights, ncols) ==
    LET m == [j \in 1..ncols |-> avg_mask(a, weights, j)]
    IN  [ma |-> TRUE,
         data |-> [j \in 1..ncols |->
                     IF m[j] THEN 0
                     ELSE FDiv(avg_num(a, weights, j), avg_scl(a, weights, j))],
         mask |-> m]

\* The whole expression
\*   np.ma.average(np.ma.masked_invalid(F[120:, :]), axis = 0,
\*                 weights = weighting[120:])
area_average_raises(F) ==
    average_raises(masked_invalid(SliceFrom(F, BandStart)),
                   SliceFrom(weighting, BandStart))

area_average(F) ==
    ma_average(masked_invalid(SliceFrom(F, BandStart)),
               SliceFrom(weighting, BandStart), NCols(F))

\* m.filled(fill_value = np.nan)
filled_nan(m) == [j \in DOMAIN m.data |-> IF m.mask[j] THEN NaN ELSE m.data[j]]

---------------------------------------------------------------------------
(* Input fields.                                                           *)
(*                                                                         *)
(* The 2-D fields that are averaged are piecewise constant in latitude and *)
(* are held by their pieces, [nlat, cols]: nlat latitude rows, and in      *)
(* column j the value 900 below the band, cols[j][1] on the band's first   *)
(* row (30N), cols[j][3] on the row of 90N and cols[j][2] on every row     *)
(* between.  Array(F) is the array itself, a sequence of rows.             *)

MkField(nlat, cols) == [nlat |-> nlat, cols |-> cols, below |-> 900]

\* The field of ndays day columns that is c at every latitude.
ConstField(c, ndays) ==
    [nlat |-> LatMax - LatMin + 1, cols |-> [j \in 1..ndays |-> <<c, c, c>>],
     below |-> c]

Array(F) ==
    [i \in 1..F.nlat |->
       [j \in DOMAIN F.cols |->
          IF i - 1 < BandStart THEN F.below
          ELSE IF i - 1 = BandStart THEN F.cols[j][1]
          ELSE IF i = LatMax - LatMin + 1 THEN F.cols[j][3]
          ELSE F.cols[j][2]]]

\* The columns the fields are drawn from.
ColPatterns == {NaN, 100} \X {NaN, Inf, 200} \X {NaN, 100}

\* Latitude lengths other than the 181 of the axis.
OtherLens == {100, 120, 150, 182}

Fields(ndays) ==
    {MkField(LatMax - LatMin + 1, cols) : cols \in [1..ndays -> ColPatterns]}

ShortFields(ndays) ==
    {MkField(n, [j \in 1..ndays |-> <<100, 200, 100>>]) : n \in OtherLens}

\* A few fields for the second input of a script.
FewFields(ndays) ==
    {MkField(LatMax - LatMin + 1, [j \in 1..ndays |-> p]) :
        p \in {<<NaN, NaN, NaN>>, <<100, 200, NaN>>}}
    \cup {MkField(120, [j \in 1..ndays |-> <<100, 200, 100>>])}
    \cup {ConstField(c, ndays) : c \in {-100, 64, 200}}
    \cup {ConstField(2, 10)}

---------------------------------------------------------------------------
(* One behaviour is one run of one script: the names of the other scripts  *)
(* are not bound.                                                          *)

Figure8Unset ==
    /\ so2_ash_550 = Unset /\ so2_ash_865 = Unset
    /\ so2_only_550 = Unset /\ so2_only_865 = Unset
    /\ omps_510 = Unset /\ omps_869 = Unset
    /\ mask510 = Unset /\ mask869 = Unset
    /\ so2_ash_550_masked = Unset /\ so2_ash_865_masked = Unset
    /\ so2_only_550_masked = Unset /\ so2_only_865_masked = Unset

Figure7Unset ==
    /\ calipso_mask = Unset /\ omps_mask = Unset
    /\ so2_ash_masked = Unset /\ so2_only_masked = Unset

PanelsUnset ==
    /\ loop_it = Unset /\ loop_i = Unset /\ ind = Unset
    /\ subplots = Unset /\ titles = Unset

---------------------------------------------------------------------------
(* Figure5.py                                                              *)

InitFigure5 ==
    /\ fig = "Figure5"
    /\ pc = "caliop_mean"
    /\ err = "none"
    /\ Figure8Unset /\ Figure7Unset /\ PanelsUnset
    /\ caliop \in Fields(NDays) \cup ShortFields(NDays)
    /\ omps \in FewFields(NDays)
    /\ omps_lon_averaged = Unset /\ so2_ash = Unset /\ so2_only = Unset
    /\ so2_ash_omps = Unset /\ so2_only_omps = Unset
    /\ so2_ash_caliop = Unset /\ so2_only_caliop = Unset
    /\ caliop_mean = Unset
    /\ caliop_area_average = Unset
    /\ omps_area_average = Unset
    /\ epc = "idle" /\ data = Unset /\ data_copy = Unset
    /\ x_max = Unset /\ x_e = Unset
    /\ omps_e_time = Unset /\ so2_ash_e_time = Unset /\ so2_only_e_time = Unset
    /\ mask = Unset
    /\ so2_ash_omps_limits = Unset /\ so2_only_omps_limits = Unset
    /\ so2_ash_caliop_limits = Unset /\ so2_only_caliop_limits = Unset

\* line 45
F5_caliop_mean ==
    /\ fig = "Figure5" /\ pc = "caliop_mean"
    /\ IF area_average_raises(Array(caliop))
       THEN /\ pc' = "error" /\ err' = "ValueError"
            /\ UNCHANGED caliop_mean
       ELSE /\ caliop_mean' = area_average(Array(caliop))
            /\ pc' = "caliop_area_average"
            /\ UNCHANGED err
    /\ UNCHANGED <<fig, others, inputs, caliop_area_average, omps_area_average,
                   frame, etimes, masked>>

\* line 46
F5_caliop_area_average ==
    /\ fig = "Figure5" /\ pc = "caliop_area_average"
    /\ caliop_area_average' = filled_nan(caliop_mean)
    /\ pc' = "omps_area_average"
    /\ UNCHANGED <<fig, others, err, inputs, caliop_mean, omps_area_average,
                   frame, etimes, masked>>

\* line 47
F5_omps_area_average ==
    /\ fig = "Figure5" /\ pc = "omps_area_average"
    /\ IF area_average_raises(Array(omps))
       THEN /\ pc' = "error" /\ err' = "ValueError"
            /\ UNCHANGED omps_area_average
       ELSE /\ omps_area_average' = area_average(Array(omps))
            /\ pc' = "plot"
            /\ UNCHANGED err
    /\ UNCHANGED <<fig, others, inputs, caliop_mean, caliop_area_average,
                   frame, etimes, masked>>

---------------------------------------------------------------------------
(* Figure3.py: the e-folding time estimator.                               *)
(*                                                                         *)
(* A 1-D array is [ma, data, mask]: ma tells a numpy.ma.MaskedArray from a *)
(* plain ndarray, whose mask is FALSE everywhere.                          *)

ndarray(s) == [ma |-> FALSE, data |-> s, mask |-> [k \in DOMAIN s |-> FALSE]]

\* data[20:]: the samples before the eruption day are dropped.
Onset == 20

\* math.e as the fraction E_NUM / E_DEN (2.7182817...).
E_NUM == 2721
E_DEN == 1001

\* Mutant of copy_from_onset: copy.copy(data), no sample is dropped.
copy_whole(d) == [ma |-> d.ma, data |-> d.data, mask |-> d.mask]

\* copy.copy(data[20:])
copy_from_onset(d) ==
    [ma |-> d.ma,
     data |-> SliceFrom(d.data, Onset),
     mask |-> SliceFrom(d.mask, Onset)]

\* Mutant of zero_nans: the NaN samples are set to 1.0.
one_nans(c) ==
    [ma |-> c.ma,
     data |-> [k \in DOMAIN c.data |-> IF isnan(c.data[k]) THEN 1 ELSE c.data[k]],
     mask |-> [k \in DOMAIN c.data |-> IF isnan(c.data[k]) THEN FALSE ELSE c.mask[k]]]

\* data_copy[np.isnan(data_copy)] = 0.0.  np.isnan looks at the data: a
\* masked sample whose data is not NaN is not selected and stays masked; a
\* selected sample is set to 0.0 and unmasked.
zero_nans(c) ==
    [ma |-> c.ma,
     data |-> [k \in DOMAIN c.data |-> IF isnan(c.data[k]) THEN 0 ELSE c.data[k]],
     mask |-> [k \in DOMAIN c.data |-> IF isnan(c.data[k]) THEN FALSE ELSE c.mask[k]]]

\* Mutant of series_after_store: data_copy = data[20:] is a view, and what is
\* stored in it is stored in the series.
series_stored_through(d, c) ==
    IF Len(d.data) <= Onset THEN d
    ELSE [ma |-> d.ma,
          data |-> SubSeq(d.data, 1, Onset) \o c.data,
          mask |-> SubSeq(d.mask, 1, Onset) \o c.mask]

\* The series d that was passed, after the store of line 72 into c:
\* copy.copy (line 71) gave data_copy a buffer of its own, the store does
\* not reach the series.
series_after_store(d, c) == d

\* np.nanmax(a): ValueError on an empty array; the masked constant when every
\* sample is masked; else the largest sample that is neither masked nor NaN.
nanmax_raises(a) == Len(a.data) = 0
nanmax_is_masked(a) == \A k \in DOMAIN a.data : a.mask[k]
nanmax(a) ==
    LET valid == {k \in DOMAIN a.data : ~a.mask[k] /\ ~isnan(a.data[k])}
    IN  a.data[CHOOSE k \in valid : \A l \in valid : a.data[l] <= a.data[k]]

\* Mutant of find_nearest: the index counts back from the end of the array
\* (-1 is the last sample).
find_nearest_from_end(array, vn, vd) ==
    LET dist(k) == Abs(array[k] * vd - vn)
    IN  (CHOOSE k \in DOMAIN array :
            /\ \A l \in DOMAIN array : dist(k) <= dist(l)
            /\ \A l \in 1..(k - 1) : dist(l) > dist(k)) - 1 - Len(array)

\* find_nearest(array, value) with value = vn / vd, vd > 0: np.asarray
\* drops the mask and keeps the data, argmin returns the first minimum.
\* The index is 0-based.
find_nearest(array, vn, vd) ==
    LET dist(k) == Abs(array[k] * vd - vn)
    IN  (CHOOSE k \in DOMAIN array :
            /\ \A l \in DOMAIN array : dist(k) <= dist(l)
            /\ \A l \in 1..(k - 1) : dist(l) > dist(k)) - 1

\* The argument of the e_folding_time call the script is at.
call_argument ==
    CASE pc = "omps_e_time" -> omps_area_average
      [] pc = "so2_ash_e_time" -> so2_ash
      [] pc = "so2_only_e_time" -> so2_only

e_calls == {"omps_e_time", "so2_ash_e_time", "so2_only_e_time"}

\* The curves the plain series are drawn from.
MaxSeg == 3
SeriesVals == {NaN, -1, 0, 1, 2, 3}

\* Post-onset day columns of the field that is averaged and then searched.
NPost == 3
PostPatterns == {NaN, 100} \X {NaN, -100} \X {NaN}

\* A series with the value p on the Onset days before the eruption and the
\* curve seg from the eruption day on.
Series(p, seg) == ndarray([k \in 1..Onset |-> p] \o seg)

Curves ==
    UNION {{Series(9, seg) : seg \in [1..n -> SeriesVals]} : n \in 0..MaxSeg}

\* The decay curve A * exp(-t / 5) at t = 0..50, as floats, A = 500000.
SyntheticCurve ==
    << 500224, 409600, 335360, 274432, 224768, 184064, 150528, 123264,
       100992, 82688, 67712, 55424, 45376, 37120, 30400, 24896, 20384,
       16672, 13664, 11184, 9152, 7496, 6136, 5024, 4112, 3368, 2760, 2260,
       1848, 1514, 1240, 1015, 831, 680, 557, 456, 373, 306, 250, 205, 168,
       137, 112, 92, 75, 62, 51, 41, 34, 28, 23 >>

\* The day columns before the eruption: no observation in the band.
PreOnset == [k \in 1..Onset |-> <<NaN, NaN, NaN>>]

SearchedFields ==
    UNION {{MkField(LatMax - LatMin + 1, PreOnset \o post) :
               post \in [1..n -> PostPatterns]} : n \in 0..NPost}

InitFigure3 ==
    /\ fig = "Figure3"
    /\ pc = "omps_area_average"
    /\ err = "none"
    /\ Figure8Unset /\ Figure7Unset /\ PanelsUnset
    /\ \/ /\ omps_lon_averaged \in
               SearchedFields \cup
               {MkField(120, [k \in 1..(Onset + 2) |-> <<100, 200, 100>>])}
          /\ so2_ash = Series(9, <<3, 1>>)
          /\ so2_only = Series(9, <<3, 1>>)
       \/ /\ omps_lon_averaged =
               MkField(LatMax - LatMin + 1,
                       PreOnset \o << <<100, 200, 100>>, <<NaN, 200, 100>> >>)
          /\ so2_ash \in Curves \cup {ndarray(SyntheticCurve),
                                      Series(9, SyntheticCurve)}
          /\ so2_only = Series(NaN, <<3, 2, 1>>)
    /\ caliop = Unset /\ omps = Unset
    /\ so2_ash_omps = Unset /\ so2_only_omps = Unset
    /\ so2_ash_caliop = Unset /\ so2_only_caliop = Unset
    /\ caliop_mean = Unset
    /\ caliop_area_average = Unset
    /\ omps_area_average = Unset
    /\ epc = "idle" /\ data = Unset /\ data_copy = Unset
    /\ x_max = Unset /\ x_e = Unset
    /\ omps_e_time = Unset /\ so2_ash_e_time = Unset /\ so2_only_e_time = Unset
    /\ mask = Unset
    /\ so2_ash_omps_limits = Unset /\ so2_only_omps_limits = Unset
    /\ so2_ash_caliop_limits = Unset /\ so2_only_caliop_limits = Unset

\* line 52
F3_omps_area_average ==
    /\ fig = "Figure3" /\ pc = "omps_area_average"
    /\ IF area_average_raises(Array(omps_lon_averaged))
       THEN /\ pc' = "error" /\ err' = "ValueError"
            /\ UNCHANGED omps_area_average
       ELSE /\ omps_area_average' = area_average(Array(omps_lon_averaged))
            /\ pc' = "omps_e_time"
            /\ UNCHANGED err
    /\ UNCHANGED <<fig, others, inputs, caliop_mean, caliop_area_average,
                   frame, etimes, masked>>

\* lines 84, 87, 90: the call binds the parameter.
E_call ==
    /\ fig = "Figure3" /\ pc \in e_calls /\ epc = "idle"
    /\ data' = call_argument
    /\ epc' = "copy"
    /\ UNCHANGED <<fig, others, pc, err, inputs, averages, data_copy, x_max, x_e,
                   etimes, masked>>

\* line 71
E_copy ==
    /\ fig = "Figure3" /\ epc = "copy"
    /\ data_copy' = copy_from_onset(data)
    /\ epc' = "zero"
    /\ UNCHANGED <<fig, others, pc, err, inputs, averages, data, x_max, x_e,
                   etimes, masked>>

\* line 72
E_zero ==
    /\ fig = "Figure3" /\ epc = "zero"
    /\ data_copy' = zero_nans(data_copy)
    /\ data' = series_after_store(data, zero_nans(data_copy))
    /\ epc' = "x_max"
    /\ UNCHANGED <<fig, others, pc, err, inputs, averages, x_max, x_e,
                   etimes, masked>>

\* line 75.  With every sample masked np.nanmax is the masked constant, the
\* distances are all masked and argmin is 0.
E_x_max ==
    /\ fig = "Figure3" /\ epc = "x_max"
    /\ IF nanmax_raises(data_copy)
       THEN /\ pc' = "error" /\ err' = "ValueError" /\ epc' = "raised"
            /\ UNCHANGED x_max
       ELSE /\ x_max' = IF nanmax_is_masked(data_copy) THEN 0
                        ELSE find_nearest(data_copy.data, nanmax(data_copy), 1)
            /\ epc' = "x_e"
            /\ UNCHANGED <<pc, err>>
    /\ UNCHANGED <<fig, others, inputs, averages, data, data_copy, x_e, etimes, masked>>

\* line 77
E_x_e ==
    /\ fig = "Figure3" /\ epc = "x_e"
    /\ x_e' = x_max +
              (IF nanmax_is_masked(data_copy) THEN 0
               ELSE find_nearest(SliceFrom(data_copy.data, x_max),
                                 nanmax(data_copy) * E_DEN, E_NUM))
    /\ epc' = "return"
    /\ UNCHANGED <<fig, others, pc, err, inputs, averages, data, data_copy, x_max,
                   etimes, masked>>

\* lines 79-81, and the assignment of the call's value at lines 84, 87, 90.
E_return ==
    /\ fig = "Figure3" /\ epc = "return"
    /\ LET e_time == x_e - x_max
       IN  CASE pc = "omps_e_time" ->
                  /\ omps_e_time' = e_time /\ pc' = "so2_ash_e_time"
                  /\ UNCHANGED <<so2_ash_e_time, so2_only_e_time>>
             [] pc = "so2_ash_e_time" ->
                  /\ so2_ash_e_time' = e_time /\ pc' = "so2_only_e_time"
                  /\ UNCHANGED <<omps_e_time, so2_only_e_time>>
             [] pc = "so2_only_e_time" ->
                  /\ so2_only_e_time' = e_time /\ pc' = "plot"
                  /\ UNCHANGED <<omps_e_time, so2_ash_e_time>>
    /\ epc' = "idle"
    /\ UNCHANGED <<fig, others, err, inputs, averages, data, data_copy, x_max, x_e,
                   masked>>

---------------------------------------------------------------------------
(* Figure4.py: the cross-grid mask.                                        *)
(*                                                                         *)
(* An n-D array is [shape, data]: shape is the sequence of its dimensions  *)
(* and data maps every 0-based index tuple to a value.                     *)

\* The grid of the mask, np.ones( (181, 366) ) in the source.
MRows == 2
MCols == 3

Max2(x, y) == IF x >= y THEN x ELSE y

Indices(shape) ==
    IF Len(shape) = 1 THEN {<<i>> : i \in 0..(shape[1] - 1)}
    ELSE {<<i, j>> : i \in 0..(shape[1] - 1), j \in 0..(shape[2] - 1)}

\* Mutant of ones: np.zeros(shape).
zeros(shape) == [shape |-> shape, data |-> [idx \in Indices(shape) |-> 0]]

\* Mutant of ones: np.full(shape, 2.0).
twos(shape) == [shape |-> shape, data |-> [idx \in Indices(shape) |-> 2]]

\* np.ones(shape)
ones(shape) == [shape |-> shape, data |-> [idx \in Indices(shape) |-> 1]]

\* m[np.isnan(ref)] = np.nan raises IndexError unless the boolean index
\* fits the leading dimensions of m.
bool_index_raises(m, ref) ==
    ~ /\ Len(ref.shape) <= Len(m.shape)
      /\ \A k \in 1..Len(ref.shape) : ref.shape[k] = m.shape[k]

\* Mutant of set_nan_where_isnan: m[~np.isfinite(ref)] = np.nan.
set_nan_where_invalid(m, ref) ==
    [shape |-> m.shape,
     data |-> [idx \in DOMAIN m.data |->
                 IF ~isfinite(ref.data[SubSeq(idx, 1, Len(ref.shape))])
                 THEN NaN ELSE m.data[idx]]]

\* m[np.isnan(ref)] = np.nan: a boolean index of fewer dimensions selects
\* whole rows.
set_nan_where_isnan(m, ref) ==
    [shape |-> m.shape,
     data |-> [idx \in DOMAIN m.data |->
                 IF isnan(ref.data[SubSeq(idx, 1, Len(ref.shape))])
                 THEN NaN ELSE m.data[idx]]]

\* numpy broadcasting of two shapes: aligned at the last dimension, a
\* missing dimension counts as 1, and two dimensions fit when they are
\* equal or one of them is 1.
dim_from_end(shape, k) ==
    IF k <= Len(shape) THEN shape[Len(shape) - k + 1] ELSE 1

broadcast_raises(s1, s2) ==
    \E k \in 1..Max2(Len(s1), Len(s2)) :
        /\ dim_from_end(s1, k) # dim_from_end(s2, k)
        /\ dim_from_end(s1, k) # 1
        /\ dim_from_end(s2, k) # 1

broadcast_shape(s1, s2) ==
    LET n == Max2(Len(s1), Len(s2))
    IN  [k \in 1..n |->
           Max2(dim_from_end(s1, n - k + 1), dim_from_end(s2, n - k + 1))]

\* The index of array a that the index idx of the broadcast result reads.
broadcast_index(a, idx) ==
    LET off == Len(idx) - Len(a.shape)
    IN  [k \in 1..Len(a.shape) |-> IF a.shape[k] = 1 THEN 0 ELSE idx[k + off]]

\* a * b
multiply(a, b) ==
    LET shape == broadcast_shape(a.shape, b.shape)
    IN  [shape |-> shape,
         data |-> [idx \in Indices(shape) |->
                     Mul(a.data[broadcast_index(a, idx)],
                         b.data[broadcast_index(b, idx)])]]

\* Input arrays: a reference varies along its first dimension, a target
\* along its last.
GridShape == <<MRows, MCols>>
RefVals == {NaN, Inf, 5}
TargetVals == {NaN, Inf, -2}

RefArray(shape, r) ==
    [shape |-> shape, data |-> [idx \in Indices(shape) |-> r[idx[1] + 1]]]

TargetArray(shape, t) ==
    [shape |-> shape, data |-> [idx \in Indices(shape) |-> t[idx[Len(idx)] + 1]]]

RefShapes == {GridShape, <<MRows>>, <<MCols, MRows>>, <<MRows, 1>>}
TargetShapes ==
    {GridShape, <<1, MCols>>, <<MRows, 1>>, <<MCols>>, <<MRows>>,
     <<MRows + 1, MCols>>}

Refs(shapes) ==
    UNION {{RefArray(sh, r) : r \in [1..sh[1] -> RefVals]} : sh \in shapes}

Targets(shapes) ==
    UNION {{TargetArray(sh, t) : t \in [1..sh[Len(sh)] -> TargetVals]} :
              sh \in shapes}

InitFigure4 ==
    /\ fig = "Figure4"
    /\ pc = "mask_omps"
    /\ err = "none"
    /\ Figure8Unset /\ Figure7Unset /\ PanelsUnset
    /\ \/ /\ omps \in Refs({GridShape})
          /\ so2_ash_omps \in Targets({GridShape})
       \/ /\ omps \in Refs({GridShape})
          /\ so2_ash_omps \in
               {TargetArray(sh, [j \in 1..sh[Len(sh)] |-> -2]) : sh \in TargetShapes}
       \/ /\ omps \in
               {RefArray(sh, [i \in 1..sh[1] |-> IF i = 1 THEN NaN ELSE 5]) :
                   sh \in RefShapes}
          /\ so2_ash_omps \in Targets({GridShape})
    /\ so2_only_omps = TargetArray(GridShape, [j \in 1..MCols |-> 3])
    /\ caliop \in {RefArray(GridShape, [i \in 1..MRows |-> v]) : v \in {NaN, 5}}
    /\ so2_ash_caliop = TargetArray(GridShape, [j \in 1..MCols |-> 0 - j])
    /\ so2_only_caliop = TargetArray(GridShape, [j \in 1..MCols |-> 3])
    /\ omps_lon_averaged = Unset /\ so2_ash = Unset /\ so2_only = Unset
    /\ caliop_mean = Unset
    /\ caliop_area_average = Unset
    /\ omps_area_average = Unset
    /\ epc = "idle" /\ data = Unset /\ data_copy = Unset
    /\ x_max = Unset /\ x_e = Unset
    /\ omps_e_time = Unset /\ so2_ash_e_time = Unset /\ so2_only_e_time = Unset
    /\ mask = Unset
    /\ so2_ash_omps_limits = Unset /\ so2_only_omps_limits = Unset
    /\ so2_ash_caliop_limits = Unset /\ so2_only_caliop_limits = Unset

\* lines 57-58
F4_mask_omps ==
    /\ fig = "Figure4" /\ pc = "mask_omps"
    /\ IF bool_index_raises(ones(GridShape), omps)
       THEN /\ mask' = ones(GridShape)
            /\ pc' = "error" /\ err' = "IndexError"
       ELSE /\ mask' = set_nan_where_isnan(ones(GridShape), omps)
            /\ pc' = "so2_ash_omps_limits"
            /\ UNCHANGED err
    /\ UNCHANGED <<fig, others, inputs, averages, frame, etimes,
                   so2_ash_omps_limits, so2_only_omps_limits,
                   so2_ash_caliop_limits, so2_only_caliop_limits>>

\* line 61
F4_so2_ash_omps_limits ==
    /\ fig = "Figure4" /\ pc = "so2_ash_omps_limits"
    /\ IF broadcast_raises(so2_ash_omps.shape, mask.shape)
       THEN /\ pc' = "error" /\ err' = "ValueError"
            /\ UNCHANGED so2_ash_omps_limits
       ELSE /\ so2_ash_omps_limits' = multiply(so2_ash_omps, mask)
            /\ pc' = "so2_only_omps_limits"
            /\ UNCHANGED err
    /\ UNCHANGED <<fig, others, inputs, averages, frame, etimes, mask,
                   so2_only_omps_limits,
                   so2_ash_caliop_limits, so2_only_caliop_limits>>

\* line 62
F4_so2_only_omps_limits ==
    /\ fig = "Figure4" /\ pc = "so2_only_omps_limits"
    /\ IF broadcast_raises(so2_only_omps.shape, mask.shape)
       THEN /\ pc' = "error" /\ err' = "ValueError"
            /\ UNCHANGED so2_only_omps_limits
       ELSE /\ so2_only_omps_limits' = multiply(so2_only_omps, mask)
            /\ pc' = "mask_caliop"
            /\ UNCHANGED err
    /\ UNCHANGED <<fig, others, inputs, averages, frame, etimes, mask,
                   so2_ash_omps_limits,
                   so2_ash_caliop_limits, so2_only_caliop_limits>>

\* lines 69-70
F4_mask_caliop ==
    /\ fig = "Figure4" /\ pc = "mask_caliop"
    /\ IF bool_index_raises(ones(GridShape), caliop)
       THEN /\ mask' = ones(GridShape)
            /\ pc' = "error" /\ err' = "IndexError"
       ELSE /\ mask' = set_nan_where_isnan(ones(GridShape), caliop)
            /\ pc' = "so2_ash_caliop_limits"
            /\ UNCHANGED err
    /\ UNCHANGED <<fig, others, inputs, averages, frame, etimes,
                   so2_ash_omps_limits, so2_only_omps_limits,
                   so2_ash_caliop_limits, so2_only_caliop_limits>>

\* line 73
F4_so2_ash_caliop_limits ==
    /\ fig = "Figure4" /\ pc = "so2_ash_caliop_limits"
    /\ IF broadcast_raises(so2_ash_caliop.shape, mask.shape)
       THEN /\ pc' = "error" /\ err' = "ValueError"
            /\ UNCHANGED so2_ash_caliop_limits
       ELSE /\ so2_ash_caliop_limits' = multiply(so2_ash_caliop, mask)
            /\ pc' = "so2_only_caliop_limits"
            /\ UNCHANGED err
    /\ UNCHANGED <<fig, others, inputs, averages, frame, etimes, mask,
                   so2_ash_omps_limits, so2_only_omps_limits,
                   so2_only_caliop_limits>>

\* line 74
F4_so2_only_caliop_limits ==
    /\ fig = "Figure4" /\ pc = "so2_only_caliop_limits"
    /\ IF broadcast_raises(so2_only_caliop.shape, mask.shape)
       THEN /\ pc' = "error" /\ err' = "ValueError"
            /\ UNCHANGED so2_only_caliop_limits
       ELSE /\ so2_only_caliop_limits' = multiply(so2_only_caliop, mask)
            /\ pc' = "plot"
            /\ UNCHANGED err
    /\ UNCHANGED <<fig, others, inputs, averages, frame, etimes, mask,
                   so2_ash_omps_limits, so2_only_omps_limits,
                   so2_ash_caliop_limits>>

---------------------------------------------------------------------------
(* Figure8.py: the masks of the two wavelengths.                           *)

\* The arrays of Figure3.py, Figure4.py and Figure5.py that Figure8.py,
\* Figure1.py and Figure2.py do not load.
FirstScriptsUnset ==
    /\ caliop = Unset /\ omps = Unset /\ omps_lon_averaged = Unset
    /\ so2_ash = Unset /\ so2_only = Unset
    /\ so2_ash_omps = Unset /\ so2_only_omps = Unset
    /\ so2_ash_caliop = Unset /\ so2_only_caliop = Unset

\* What no script but Figure3.py, Figure4.py and Figure5.py computes.
FirstResultsUnset ==
    /\ caliop_mean = Unset /\ caliop_area_average = Unset
    /\ omps_area_average = Unset
    /\ epc = "idle" /\ data = Unset /\ data_copy = Unset
    /\ x_max = Unset /\ x_e = Unset
    /\ omps_e_time = Unset /\ so2_ash_e_time = Unset /\ so2_only_e_time = Unset
    /\ mask = Unset
    /\ so2_ash_omps_limits = Unset /\ so2_only_omps_limits = Unset
    /\ so2_ash_caliop_limits = Unset /\ so2_only_caliop_limits = Unset

\* The observational fields: a row is valid or NaN as a whole.
Obs8 == {RefArray(GridShape, r) : r \in [1..MRows -> {NaN, 5}]}

InitFigure8 ==
    /\ fig = "Figure8"
    /\ pc = "mask510"
    /\ err = "none"
    /\ FirstScriptsUnset /\ FirstResultsUnset /\ Figure7Unset /\ PanelsUnset
    /\ omps_510 \in Obs8
    /\ omps_869 \in Obs8
    /\ so2_ash_550 = TargetArray(GridShape, [j \in 1..MCols |-> 2])
    /\ so2_ash_865 = TargetArray(GridShape, [j \in 1..MCols |-> 3])
    /\ so2_only_550 = TargetArray(GridShape, [j \in 1..MCols |-> 4])
    /\ so2_only_865 = TargetArray(GridShape, [j \in 1..MCols |-> 6])
    /\ mask510 = Unset /\ mask869 = Unset
    /\ so2_ash_550_masked = Unset /\ so2_ash_865_masked = Unset
    /\ so2_only_550_masked = Unset /\ so2_only_865_masked = Unset

\* lines 43-44
F8_mask510 ==
    /\ fig = "Figure8" /\ pc = "mask510"
    /\ mask510' = set_nan_where_isnan(ones(GridShape), omps_510)
    /\ pc' = "mask869"
    /\ UNCHANGED <<fig, err, inputs, averages, frame, etimes, masked,
                   mask869, so2_ash_550_masked, so2_ash_865_masked,
                   so2_only_550_masked, so2_only_865_masked, masked7, panels>>

\* lines 46-47
F8_mask869 ==
    /\ fig = "Figure8" /\ pc = "mask869"
    /\ mask869' = set_nan_where_isnan(ones(GridShape), omps_869)
    /\ pc' = "so2_ash_550_masked"
    /\ UNCHANGED <<fig, err, inputs, averages, frame, etimes, masked,
                   mask510, so2_ash_550_masked, so2_ash_865_masked,
                   so2_only_550_masked, so2_only_865_masked, masked7, panels>>

\* line 50
F8_so2_ash_550_masked ==
    /\ fig = "Figure8" /\ pc = "so2_ash_550_masked"
    /\ so2_ash_550_masked' = multiply(so2_ash_550, mask510)
    /\ pc' = "so2_ash_865_masked"
    /\ UNCHANGED <<fig, err, inputs, averages, frame, etimes, masked,
                   mask510, mask869, so2_ash_865_masked,
                   so2_only_550_masked, so2_only_865_masked, masked7, panels>>

\* line 51
F8_so2_ash_865_masked ==
    /\ fig = "Figure8" /\ pc = "so2_ash_865_masked"
    /\ so2_ash_865_masked' = multiply(so2_ash_865, mask869)
    /\ pc' = "so2_only_550_masked"
    /\ UNCHANGED <<fig, err, inputs, averages, frame, etimes, masked,
                   mask510, mask869, so2_ash_550_masked,
                   so2_only_550_masked, so2_only_865_masked, masked7, panels>>

\* line 53
F8_so2_only_550_masked ==
    /\ fig = "Figure8" /\ pc = "so2_only_550_masked"
    /\ so2_only_550_masked' = multiply(so2_only_550, mask510)
    /\ pc' = "so2_only_865_masked"
    /\ UNCHANGED <<fig, err, inputs, averages, frame, etimes, masked,
                   mask510, mask869, so2_ash_550_masked, so2_ash_865_masked,
                   so2_only_865_masked, masked7, panels>>

\* line 54: the 865 nm field of SO2only is multiplied by mask510.
F8_so2_only_865_masked ==
    /\ fig = "Figure8" /\ pc = "so2_only_865_masked"
    /\ so2_only_865_masked' = multiply(so2_only_865, mask510)
    /\ pc' = "averages"
    /\ UNCHANGED <<fig, err, inputs, averages, frame, etimes, masked,
                   mask510, mask869, so2_ash_550_masked, so2_ash_865_masked,
                   so2_only_550_masked, masked7, panels>>

---------------------------------------------------------------------------
(* Figure1.py and Figure2.py: the panel loops.                             *)
(*                                                                         *)
(* A string is the sequence of its characters or, where only its whole     *)
(* matters, one TLA+ string; a title is the sequence of the pieces that    *)
(* are concatenated.                                                       *)

Digits == <<"0", "1", "2", "3", "4", "5", "6", "7", "8", "9">>

\* The four characters of an MMDD string of month m < 10 and day d.
MMDD(m, d) ==
    <<"0", Digits[m + 1], Digits[(d \div 10) + 1], Digits[(d % 10) + 1]>>

\* Figure1.py line 44
day_list_1 ==
    [k \in 1..11 |-> IF k <= 10 THEN MMDD(6, 20 + k) ELSE MMDD(7, k - 10)]

\* Figure2.py lines 38-40
day_list_2 ==
    [k \in 1..21 |->
       IF k <= 10 THEN MMDD(6, 20 + k)
       ELSE IF k <= 14 THEN MMDD(7, k - 10)
       ELSE MMDD(7, k - 7)]

day_list == IF fig = "Figure1" THEN day_list_1 ELSE day_list_2

\* np.arange(start, stop, step) for step > 0
arange(start, stop, step) ==
    [k \in 1..(IF stop > start THEN (stop - start + step - 1) \div step ELSE 0)
       |-> start + (k - 1) * step]

\* Figure1.py line 81, Figure2.py line 80
loop_values == IF fig = "Figure1" THEN arange(21, 30, 2) ELSE arange(21, 31, 1)

\* plt.subplot(nrows, ncols, index) raises ValueError unless
\* 1 <= index <= nrows * ncols.
subplot_raises(nrows, ncols, index) == index < 1 \/ index > nrows * ncols

\* list[k] raises IndexError unless -len <= k < len; a negative k counts
\* from the end.
list_index_raises(list, k) == k < 0 - Len(list) \/ k >= Len(list)
list_item(list, k) == IF k < 0 THEN list[Len(list) + k + 1] ELSE list[k + 1]

\* Mutant of title_entry: day_list[i - 21].
title_entry_of_data_index(i) == i - 21

\* The index of the day_list entry that titles the panels of loop value i:
\* day_list[i - 20].
title_entry(i) == i - 20

\* if day_list[i - 20][1] == '6': before + day_list[i - 20][2:] + ' June 2019'
\* + after; else the same with ' July 2019'.
title(before, entry, after) ==
    <<before>> \o SubSeq(entry, 3, Len(entry))
      \o <<IF entry[2] = "6" THEN " June 2019" ELSE " July 2019">> \o <<after>>

InitFigure1 ==
    /\ fig = "Figure1"
    /\ pc = "for"
    /\ err = "none"
    /\ FirstScriptsUnset /\ FirstResultsUnset /\ Figure8Unset /\ Figure7Unset
    /\ loop_it = 0 /\ loop_i = Unset
    /\ ind = 1
    /\ subplots = << >> /\ titles = << >>

InitFigure2 ==
    /\ fig = "Figure2"
    /\ pc = "for"
    /\ err = "none"
    /\ FirstScriptsUnset /\ FirstResultsUnset /\ Figure8Unset /\ Figure7Unset
    /\ loop_it = 0 /\ loop_i = Unset
    /\ ind = 1
    /\ subplots = << >> /\ titles = << >>

\* Figure1.py line 81, Figure2.py line 80: the iterator gives the next value
\* or ends the loop.
Panel_for ==
    /\ fig \in {"Figure1", "Figure2"} /\ pc = "for"
    /\ IF loop_it < Len(loop_values)
       THEN /\ loop_it' = loop_it + 1
            /\ loop_i' = loop_values[loop_it + 1]
            /\ pc' = "body"
       ELSE /\ pc' = "colorbar"
            /\ UNCHANGED <<loop_it, loop_i>>
    /\ UNCHANGED <<fig, err, inputs, averages, frame, etimes, masked,
                   masked8, masked7, ind, subplots, titles>>

\* The subplots and titles that panels with the positions and title
\* prefixes of seq ps add before the first statement that raises.
RECURSIVE issued(_, _, _, _)
issued(ps, nrows, ncols, k) ==
    IF k > Len(ps) THEN [subplots |-> << >>, titles |-> << >>, err |-> "none"]
    ELSE IF subplot_raises(nrows, ncols, ps[k].pos)
    THEN [subplots |-> << >>, titles |-> << >>, err |-> "ValueError"]
    ELSE IF list_index_raises(day_list, title_entry(loop_i))
    THEN [subplots |-> <<[pos |-> ps[k].pos, data |-> ps[k].data, i |-> loop_i]>>,
          titles |-> << >>, err |-> "IndexError"]
    ELSE LET rest == issued(ps, nrows, ncols, k + 1)
         IN  [subplots |-> <<[pos |-> ps[k].pos, data |-> ps[k].data,
                              i |-> loop_i]>> \o rest.subplots,
              titles |-> <<title(ps[k].before,
                                 list_item(day_list, title_entry(loop_i)),
                                 ps[k].after)>> \o rest.titles,
              err |-> rest.err]

\* Figure1.py lines 85-126: three panels in a 6 x 3 grid, each of the data
\* of day i, and ind = ind + 3.
F1_body ==
    /\ fig = "Figure1" /\ pc = "body"
    /\ LET r == issued(<<[pos |-> ind, data |-> loop_i,
                          before |-> "UKESM1 SO2only: ", after |-> ""],
                         [pos |-> ind + 1, data |-> loop_i,
                          before |-> "OMPS-NM: ", after |-> ""],
                         [pos |-> ind + 2, data |-> loop_i,
                          before |-> "UKESM1 SO2+ash: ", after |-> ""]>>,
                       6, 3, 1)
       IN  /\ subplots' = subplots \o r.subplots
           /\ titles' = titles \o r.titles
           /\ IF r.err = "none"
              THEN /\ ind' = ind + 3 /\ pc' = "for" /\ UNCHANGED err
              ELSE /\ pc' = "error" /\ err' = r.err /\ UNCHANGED ind
    /\ UNCHANGED <<fig, inputs, averages, frame, etimes, masked,
                   masked8, masked7, loop_it, loop_i>>

\* Figure2.py lines 83-96: one panel in a 5 x 2 grid, of the data of index
\* i - 21, and ind = ind + 1.
F2_body ==
    /\ fig = "Figure2" /\ pc = "body"
    /\ LET r == issued(<<[pos |-> ind, data |-> loop_i - 21,
                          before |-> "", after |-> " - SO2only"]>>, 5, 2, 1)
       IN  /\ subplots' = subplots \o r.subplots
           /\ titles' = titles \o r.titles
           /\ IF r.err = "none"
              THEN /\ ind' = ind + 1 /\ pc' = "for" /\ UNCHANGED err
              ELSE /\ pc' = "error" /\ err' = r.err /\ UNCHANGED ind
    /\ UNCHANGED <<fig, inputs, averages, frame, etimes, masked,
                   masked8, masked7, loop_it, loop_i>>

---------------------------------------------------------------------------
(* Figure7.py: the mask of the combined dataset.                           *)

\* The day columns of the fields, the columns masked by CALIOP and the
\* columns masked by OMPS.
Days == 366
CaliopDays == 147
OmpsDays == 219

Min2(x, y) == IF x <= y THEN x ELSE y

\* Mutant of cols: the slice includes the column of index hi.
cols_inclusive(a, lo, hi) ==
    LET l == Min2(lo, a.shape[2])
        h == Min2(hi + 1, a.shape[2])
        shape == <<a.shape[1], Max2(h - l, 0)>>
    IN  [shape |-> shape,
         data |-> [idx \in Indices(shape) |-> a.data[<<idx[1], idx[2] + l>>]]]

\* a[:, lo:hi] of a 2-D array, 0 <= lo, 0 <= hi: the slice clips at the end
\* of the axis.
cols(a, lo, hi) ==
    LET l == Min2(lo, a.shape[2])
        h == Min2(hi, a.shape[2])
        shape == <<a.shape[1], Max2(h - l, 0)>>
    IN  [shape |-> shape,
         data |-> [idx \in Indices(shape) |-> a.data[<<idx[1], idx[2] + l>>]]]

\* a = np.zeros(shape); a[:] = np.nan
full_nan(shape) == [shape |-> shape, data |-> [idx \in Indices(shape) |-> NaN]]

\* a[:, lo:hi] = b raises ValueError unless b broadcasts to the slice.
set_cols_raises(a, lo, hi, b) ==
    \/ broadcast_raises(cols(a, lo, hi).shape, b.shape)
    \/ broadcast_shape(cols(a, lo, hi).shape, b.shape) # cols(a, lo, hi).shape

\* a after a[:, lo:hi] = b
set_cols(a, lo, hi, b) ==
    LET l == Min2(lo, a.shape[2])
        h == Min2(hi, a.shape[2])
    IN  [shape |-> a.shape,
         data |-> [idx \in DOMAIN a.data |->
                     IF l <= idx[2] /\ idx[2] < h
                     THEN b.data[broadcast_index(b, <<idx[1], idx[2] - l>>)]
                     ELSE a.data[idx]]]

\* An input field of ndays day columns that is v, and NaN in its first row
\* at the columns of nans.
DayField(ndays, v, nans) ==
    [shape |-> <<MRows, ndays>>,
     data |-> [idx \in Indices(<<MRows, ndays>>) |->
                 IF idx[1] = 0 /\ idx[2] \in nans THEN NaN ELSE v]]

InitFigure7 ==
    /\ fig = "Figure7"
    /\ pc = "calipso_mask"
    /\ err = "none"
    /\ Figure8Unset /\ PanelsUnset /\ FirstResultsUnset
    /\ omps_lon_averaged = Unset
    /\ \/ /\ caliop \in {DayField(Days, 5, n) :
                           n \in {{}, {0, CaliopDays - 1}, {CaliopDays}}}
          /\ omps \in {DayField(Days, 5, n) :
                         n \in {{}, {CaliopDays - 1}, {CaliopDays, Days - 1}}}
       \/ /\ caliop \in {DayField(CaliopDays - 1, 5, {}),
                         DayField(CaliopDays, 5, {0})}
          /\ omps \in {DayField(Days, 5, {}), DayField(Days - 1, 5, {})}
    /\ so2_ash = DayField(Days, 1, {})
    /\ so2_only = DayField(Days, 1, {})
    /\ so2_ash_caliop \in {DayField(Days, 2, n) : n \in {{}, {1}}}
    /\ so2_ash_omps = DayField(Days, 3, {CaliopDays + 1})
    /\ so2_only_caliop = DayField(Days, 4, {})
    /\ so2_only_omps = DayField(Days, 6, {})
    /\ Figure7Unset

\* lines 57-58
F7_calipso_mask ==
    /\ fig = "Figure7" /\ pc = "calipso_mask"
    /\ IF bool_index_raises(ones(<<MRows, CaliopDays>>), cols(caliop, 0, CaliopDays))
       THEN /\ calipso_mask' = ones(<<MRows, CaliopDays>>)
            /\ pc' = "error" /\ err' = "IndexError"
       ELSE /\ calipso_mask' =
                 set_nan_where_isnan(ones(<<MRows, CaliopDays>>),
                                     cols(caliop, 0, CaliopDays))
            /\ pc' = "omps_mask"
            /\ UNCHANGED err
    /\ UNCHANGED <<fig, inputs, averages, frame, etimes, masked, masked8,
                   omps_mask, so2_ash_masked, so2_only_masked, panels>>

\* lines 59-60
F7_omps_mask ==
    /\ fig = "Figure7" /\ pc = "omps_mask"
    /\ IF bool_index_raises(ones(<<MRows, OmpsDays>>), cols(omps, CaliopDays, Days))
       THEN /\ omps_mask' = ones(<<MRows, OmpsDays>>)
            /\ pc' = "error" /\ err' = "IndexError"
       ELSE /\ omps_mask' =
                 set_nan_where_isnan(ones(<<MRows, OmpsDays>>),
                                     cols(omps, CaliopDays, Days))
            /\ pc' = "so2_ash_masked"
            /\ UNCHANGED err
    /\ UNCHANGED <<fig, inputs, averages, frame, etimes, masked, masked8,
                   calipso_mask, so2_ash_masked, so2_only_masked, panels>>

\* lines 63-64
F7_so2_ash_masked ==
    /\ fig = "Figure7" /\ pc = "so2_ash_masked"
    /\ so2_ash_masked' = full_nan(<<MRows, Days>>)
    /\ pc' = "so2_ash_masked_caliop"
    /\ UNCHANGED <<fig, err, inputs, averages, frame, etimes, masked, masked8,
                   calipso_mask, omps_mask, so2_only_masked, panels>>

\* line 65
F7_so2_ash_masked_caliop ==
    /\ fig = "Figure7" /\ pc = "so2_ash_masked_caliop"
    /\ LET m == cols(so2_ash_caliop, 0, CaliopDays)
       IN  IF broadcast_raises(m.shape, calipso_mask.shape)
              \/ set_cols_raises(so2_ash_masked, 0, CaliopDays,
                                 multiply(m, calipso_mask))
           THEN /\ pc' = "error" /\ err' = "ValueError"
                /\ UNCHANGED so2_ash_masked
           ELSE /\ so2_ash_masked' =
                     set_cols(so2_ash_masked, 0, CaliopDays,
                              multiply(m, calipso_mask))
                /\ pc' = "so2_ash_masked_omps"
                /\ UNCHANGED err
    /\ UNCHANGED <<fig, inputs, averages, frame, etimes, masked, masked8,
                   calipso_mask, omps_mask, so2_only_masked, panels>>

\* line 66
F7_so2_ash_masked_omps ==
    /\ fig = "Figure7" /\ pc = "so2_ash_masked_omps"
    /\ LET m == cols(so2_ash_omps, CaliopDays, Days)
       IN  IF broadcast_raises(m.shape, omps_mask.shape)
              \/ set_cols_raises(so2_ash_masked, CaliopDays, Days,
                                 multiply(m, omps_mask))
           THEN /\ pc' = "error" /\ err' = "ValueError"
                /\ UNCHANGED so2_ash_masked
           ELSE /\ so2_ash_masked' =
                     set_cols(so2_ash_masked, CaliopDays, Days,
                              multiply(m, omps_mask))
                /\ pc' = "so2_only_masked"
                /\ UNCHANGED err
    /\ UNCHANGED <<fig, inputs, averages, frame, etimes, masked, masked8,
                   calipso_mask, omps_mask, so2_only_masked, panels>>

\* lines 69-70
F7_so2_only_masked ==
    /\ fig = "Figure7" /\ pc = "so2_only_masked"
    /\ so2_only_masked' = full_nan(<<MRows, Days>>)
    /\ pc' = "so2_only_masked_caliop"
    /\ UNCHANGED <<fig, err, inputs, averages, frame, etimes, masked, masked8,
                   calipso_mask, omps_mask, so2_ash_masked, panels>>

\* line 71
F7_so2_only_masked_caliop ==
    /\ fig = "Figure7" /\ pc = "so2_only_masked_caliop"
    /\ LET m == cols(so2_only_caliop, 0, CaliopDays)
       IN  IF broadcast_raises(m.shape, calipso_mask.shape)
              \/ set_cols_raises(so2_only_masked, 0, CaliopDays,
                                 multiply(m, calipso_mask))
           THEN /\ pc' = "error" /\ err' = "ValueError"
                /\ UNCHANGED so2_only_masked
           ELSE /\ so2_only_masked' =
                     set_cols(so2_only_masked, 0, CaliopDays,
                              multiply(m, calipso_mask))
                /\ pc' = "so2_only_masked_omps"
                /\ UNCHANGED err
    /\ UNCHANGED <<fig, inputs, averages, frame, etimes, masked, masked8,
                   calipso_mask, omps_mask, so2_ash_masked, panels>>

\* line 72
F7_so2_only_masked_omps ==
    /\ fig = "Figure7" /\ pc = "so2_only_masked_omps"
    /\ LET m == cols(so2_only_omps, CaliopDays, Days)
       IN  IF broadcast_raises(m.shape, omps_mask.shape)
              \/ set_cols_raises(so2_only_masked, CaliopDays, Days,
                                 multiply(m, omps_mask))
           THEN /\ pc' = "error" /\ err' = "ValueError"
                /\ UNCHANGED so2_only_masked
           ELSE /\ so2_only_masked' =
                     set_cols(so2_only_masked, CaliopDays, Days,
                              multiply(m, omps_mask))
                /\ pc' = "averages"
                /\ UNCHANGED err
    /\ UNCHANGED <<fig, inputs, averages, frame, etimes, masked, masked8,
                   calipso_mask, omps_mask, so2_ash_masked, panels>>

---------------------------------------------------------------------------
Init == InitFigure5 \/ InitFigure3 \/ InitFigure4 \/ InitFigure8
          \/ InitFigure1 \/ InitFigure2 \/ InitFigure7

Next ==
    \/ F5_caliop_mean
    \/ F5_caliop_area_average
    \/ F5_omps_area_average
    \/ F3_omps_area_average
    \/ E_call
    \/ E_copy
    \/ E_zero
    \/ E_x_max
    \/ E_x_e
    \/ E_return
    \/ F4_mask_omps
    \/ F4_so2_ash_omps_limits
    \/ F4_so2_only_omps_limits
    \/ F4_mask_caliop
    \/ F4_so2_ash_caliop_limits
    \/ F4_so2_only_caliop_limits
    \/ F8_mask510
    \/ F8_mask869
    \/ F8_so2_ash_550_masked
    \/ F8_so2_ash_865_masked
    \/ F8_so2_only_550_masked
    \/ F8_so2_only_865_masked
    \/ Panel_for
    \/ F1_body
    \/ F2_body
    \/ F7_calipso_mask
    \/ F7_omps_mask
    \/ F7_so2_ash_masked
    \/ F7_so2_ash_masked_caliop
    \/ F7_so2_ash_masked_omps
    \/ F7_so2_only_masked
    \/ F7_so2_only_masked_caliop
    \/ F7_so2_only_masked_omps

Spec == Init /\ [][Next]_vars

---------------------------------------------------------------------------
(* Properties of the latitude-weighted average.                            *)

\* The float sum of f over the rows of S between lo and hi, in the order
\* of the rows, and over the rows of S in the band.
RECURSIVE SumRange(_, _, _, _, _)
SumRange(lo, hi, S, f, acc) ==
    IF lo > hi THEN acc
    ELSE LET a == IF lo \in S THEN FAdd(acc, f[lo]) ELSE acc
         IN  IF a \in Int THEN SumRange(lo + 1, hi, S, f, a) ELSE a
SumOver(S, f) == SumRange(BandStart + 1, LatMax - LatMin + 1, S, f, 0)

\* The average just computed, with the field it was computed from.
AverageSites ==
    (IF fig = "Figure5" /\ pc = "caliop_area_average"
     THEN {[F |-> Array(caliop), R |-> caliop_mean]} ELSE {})
    \cup
    (IF fig = "Figure5" /\ pc = "plot"
     THEN {[F |-> Array(omps), R |-> omps_area_average]} ELSE {})
    \cup
    (IF fig = "Figure3" /\ pc = "omps_e_time" /\ epc = "idle"
     THEN {[F |-> Array(omps_lon_averaged), R |-> omps_area_average]} ELSE {})

\* The rows of field F inside the band 30N..90N.
BandOf(F) == {i \in DOMAIN F : latitude[i] >= 30}

NotNaNIn(F, j) == {i \in BandOf(F) : ~isnan(F[i][j])}
FiniteIn(F, j) == {i \in BandOf(F) : isfinite(F[i][j])}

\* sum(w[i] * F[i]) / sum(w[i]) over the rows V of column j, all finite.
WeightedMean(F, j, V) ==
    FDiv(SumOver(V, [i \in V |-> FMul(weighting[i], F[i][j])]),
         SumOver(V, [i \in V |-> weighting[i]]))

\* C1 as stated: at every output index the average is the weighted mean of
\* the band samples that are not NaN (an infinite sample is such a sample,
\* and a mean that includes it is not finite).
C1_MeanOverNotNaN ==
    \A s \in AverageSites : \A j \in DOMAIN s.R.data :
        NotNaNIn(s.F, j) # {} =>
            /\ ~s.R.mask[j]
            /\ IF \A i \in NotNaNIn(s.F, j) : isfinite(s.F[i][j])
               THEN s.R.data[j] = WeightedMean(s.F, j, NotNaNIn(s.F, j))
               ELSE ~isfinite(s.R.data[j])

\* C1, amended: at every output index with a finite band sample the average
\* is sum(w[i]*F[i]) / sum(w[i]) over the band samples that are finite
\* (neither NaN nor infinite) at that index, each index with its own set.
C1_MeanOverFinite ==
    \A s \in AverageSites : \A j \in DOMAIN s.R.data :
        FiniteIn(s.F, j) # {} =>
            /\ ~s.R.mask[j]
            /\ s.R.data[j] = WeightedMean(s.F, j, FiniteIn(s.F, j))

\* Two day columns of one average that use different sets of latitudes,
\* one of them with a sample dropped.
C1_Witness ==
    \E s \in AverageSites : \E j1, j2 \in DOMAIN s.R.data :
        /\ FiniteIn(s.F, j1) # FiniteIn(s.F, j2)
        /\ FiniteIn(s.F, j1) # {} /\ FiniteIn(s.F, j2) # {}
        /\ FiniteIn(s.F, j1) # BandOf(s.F)
        /\ s.R.data[j1] # s.R.data[j2]

\* A band column with no sample but NaN.
AllNaN(F, j) == \A i \in BandOf(F) : isnan(F[i][j])

\* C2 as stated: with every band sample of an output index NaN, the value
\* the call site keeps at that index is NaN (and not masked).
C2_AllNaNGivesNaN ==
    /\ fig = "Figure5" /\ pc = "omps_area_average" =>
          \A j \in DOMAIN caliop_area_average :
              AllNaN(Array(caliop), j) => isnan(caliop_area_average[j])
    /\ \A s \in AverageSites : \A j \in DOMAIN s.R.data :
          (pc # "caliop_area_average" /\ AllNaN(s.F, j)) =>
              ~s.R.mask[j] /\ isnan(s.R.data[j])

\* C10: averaging a field whose latitude axis ends before the band starts
\* raises an error that ends the script, and no average is produced.
C10_BandOutsideAxisRaises ==
    /\ (fig = "Figure5" /\ caliop.nlat <= BandStart /\ pc # "caliop_mean") =>
          /\ pc = "error" /\ err = "ValueError"
          /\ caliop_mean = Unset /\ caliop_area_average = Unset
          /\ omps_area_average = Unset
    /\ (fig = "Figure5" /\ omps.nlat <= BandStart
          /\ pc \notin {"caliop_mean", "caliop_area_average", "omps_area_average"}) =>
          /\ pc = "error" /\ err = "ValueError"
          /\ omps_area_average = Unset
    /\ (fig = "Figure3" /\ omps_lon_averaged.nlat <= BandStart
          /\ pc # "omps_area_average") =>
          /\ pc = "error" /\ err = "ValueError"
          /\ omps_area_average = Unset /\ epc = "idle"
    /\ pc = "error" => ~ENABLED Next

\* The second average of Figure5.py has raised on a field of 120 rows.
C10_Witness ==
    /\ fig = "Figure5" /\ pc = "error"
    /\ caliop.nlat = Len(latitude) /\ omps.nlat <= BandStart
    /\ caliop_area_average # Unset

---------------------------------------------------------------------------
(* Properties of the mask.                                                 *)

\* The mask of Figure4.py is the one built from omps until line 69 runs,
\* and the one built from caliop after it.
MaskIsOfOmps ==
    fig = "Figure4" /\ pc \in {"so2_ash_omps_limits", "so2_only_omps_limits",
                               "mask_caliop"}
MaskIsOfCaliop ==
    fig = "Figure4" /\ pc \in {"so2_ash_caliop_limits", "so2_only_caliop_limits",
                               "plot"}

MaskOfFinite(m, ref) ==
    \A idx \in DOMAIN m.data :
        m.data[idx] = IF isfinite(ref.data[idx]) THEN 1 ELSE NaN

\* C3 as stated: the mask built from a reference of the mask's shape is 1
\* where the reference is finite and NaN at every other cell, the cells
\* where the reference is infinite included.
C3_MaskOneWhereFinite ==
    /\ MaskIsOfOmps /\ omps.shape = mask.shape => MaskOfFinite(mask, omps)
    /\ MaskIsOfCaliop /\ caliop.shape = mask.shape => MaskOfFinite(mask, caliop)

\* The masked fields computed with the mask the script holds now, each with
\* its target.
MaskedNow ==
    (IF MaskIsOfOmps /\ pc \in {"so2_only_omps_limits", "mask_caliop"}
     THEN {[out |-> so2_ash_omps_limits, target |-> so2_ash_omps]} ELSE {})
    \cup
    (IF MaskIsOfOmps /\ pc = "mask_caliop"
     THEN {[out |-> so2_only_omps_limits, target |-> so2_only_omps]} ELSE {})
    \cup
    (IF MaskIsOfCaliop /\ pc \in {"so2_only_caliop_limits", "plot"}
     THEN {[out |-> so2_ash_caliop_limits, target |-> so2_ash_caliop]} ELSE {})
    \cup
    (IF MaskIsOfCaliop /\ pc = "plot"
     THEN {[out |-> so2_only_caliop_limits, target |-> so2_only_caliop]} ELSE {})

\* C4: masking a target of the mask's shape gives target * mask cell by
\* cell: NaN where the mask is NaN, the target's value at every other cell.
C4_MaskedIsProduct ==
    \A p \in MaskedNow :
        p.target.shape = mask.shape =>
            /\ p.out.shape = p.target.shape
            /\ \A idx \in DOMAIN p.out.data :
                  /\ p.out.data[idx] = Mul(p.target.data[idx], mask.data[idx])
                  /\ isnan(mask.data[idx]) => isnan(p.out.data[idx])
                  /\ ~isnan(mask.data[idx]) => p.out.data[idx] = p.target.data[idx]

\* A field masked by a mask with a NaN cell and a cell of 1, whose target
\* holds a number, an infinity and a NaN where the mask is 1.
C4_Witness ==
    \E p \in MaskedNow :
        /\ p.target.shape = mask.shape
        /\ \E idx \in DOMAIN mask.data :
              isnan(mask.data[idx]) /\ ~isnan(p.target.data[idx])
        /\ \E idx \in DOMAIN mask.data :
              mask.data[idx] = 1 /\ p.out.data[idx] = -2
        /\ \E idx \in DOMAIN mask.data :
              mask.data[idx] = 1 /\ p.out.data[idx] = Inf
        /\ \E idx \in DOMAIN mask.data :
              mask.data[idx] = 1 /\ isnan(p.out.data[idx])

\* C5 as stated: when the target and the reference differ in shape the
\* masking raises an error; it never goes on to a masked field.
C5_ShapeMismatchRaises ==
    (fig = "Figure4" /\ so2_ash_omps.shape # omps.shape
        /\ pc \notin {"mask_omps", "so2_ash_omps_limits"}) => pc = "error"

---------------------------------------------------------------------------
(* Properties of the e-folding estimator.                                  *)

\* A call of e_folding_time has returned and its frame is still in place:
\* data is the series that was passed and LastETime the value returned.
Returned == fig = "Figure3" /\ epc = "idle" /\ pc \in {"so2_ash_e_time",
                                                     "so2_only_e_time", "plot"}
LastETime ==
    CASE pc = "so2_ash_e_time" -> omps_e_time
      [] pc = "so2_only_e_time" -> so2_ash_e_time
      [] pc = "plot" -> so2_only_e_time

\* The segment of the series d from the eruption day on, every invalid
\* sample (NaN or masked) replaced by zero.
Segment(d) ==
    [k \in 1..(IF Len(d.data) > Onset THEN Len(d.data) - Onset ELSE 0) |->
        IF d.mask[k + Onset] \/ isnan(d.data[k + Onset]) THEN 0
        ELSE d.data[k + Onset]]

MaxOf(z) == CHOOSE m \in {z[k] : k \in DOMAIN z} : \A k \in DOMAIN z : z[k] <= m

\* The places of the maximum of z.
ArgMax(z) == {k \in DOMAIN z : z[k] = MaxOf(z)}

\* |z[k] - m / e| <= |z[l] - m / e|
NoFarther(z, m, k, l) ==
    Abs(z[k] * E_NUM - m * E_DEN) <= Abs(z[l] * E_NUM - m * E_DEN)

\* The places from xm to the end of z whose value is nearest to m / e.
Nearest(z, m, xm) ==
    {k \in xm..Len(z) : \A l \in xm..Len(z) : NoFarther(z, m, k, l)}

\* C6 as stated: the value returned is x_e - x_max with x_max a place of
\* the maximum of the whole zero-replaced segment and x_e a place, from
\* x_max to the end, of the value nearest to max / e.
C6_ReturnsNearestAfterMax ==
    Returned =>
        LET z == Segment(data)
        IN  \E xm \in ArgMax(z) : \E xe \in Nearest(z, MaxOf(z), xm) :
                LastETime = xe - xm

\* C7 as stated: when no sample from x_max to the end is below max / e, the
\* value returned is the offset of the sample nearest to max / e.
C7_NearestNotCrossing ==
    Returned =>
        LET z == Segment(data)
            m == MaxOf(z)
            xm == CHOOSE k \in ArgMax(z) : \A l \in ArgMax(z) : k <= l
        IN  (\A k \in xm..Len(z) : z[k] * E_NUM >= m * E_DEN) =>
                \E xe \in Nearest(z, m, xm) : LastETime = xe - xm

\* C8 as stated: once line 72 has run, and while the two searches run, the
\* copy holds no invalid sample: none is NaN, none is masked, and every
\* sample that was invalid in the series passed is 0.
C8_NoInvalidSampleLeft ==
    (fig = "Figure3" /\ epc \in {"x_max", "x_e", "return"}) =>
        \A k \in DOMAIN data_copy.data :
            /\ ~isnan(data_copy.data[k])
            /\ ~data_copy.mask[k]
            /\ data_copy.data[k] = Segment(data)[k]

\* C9 as stated: on a segment of length 0 or 1 the estimator raises and
\* returns no number.
C9_ShortSegmentRaises ==
    (fig = "Figure3" /\ epc \in {"x_e", "return"}) => Len(data_copy.data) > 1

---------------------------------------------------------------------------
(* Bounds of the latitude-weighted average.                                *)

\* The least and the greatest of the samples of column j on the rows V.
MinIn(F, j, V) ==
    CHOOSE m \in {F[i][j] : i \in V} : \A i \in V : m <= F[i][j]
MaxIn(F, j, V) ==
    CHOOSE m \in {F[i][j] : i \in V} : \A i \in V : F[i][j] <= m

\* A bound of the rounding error of a weighted mean of samples of magnitude
\* at most m: two sums of one term per band row and one quotient, each
\* rounded to Precision bits, and half the finest spacing.
Slack(m) ==
    (2 * (LatMax - LatMin + 2 - BandStart) * m) \div Pow2(Precision) + 1

\* C11 as stated: at every output index with a band sample that is not NaN
\* the average is a finite number between the least and the greatest of
\* the band samples that are not NaN.
C11_WithinMinMax ==
    \A s \in AverageSites : \A j \in DOMAIN s.R.data :
        NotNaNIn(s.F, j) # {} =>
            /\ ~s.R.mask[j] /\ isfinite(s.R.data[j])
            /\ MinIn(s.F, j, NotNaNIn(s.F, j)) <= s.R.data[j]
            /\ s.R.data[j] <= MaxIn(s.F, j, NotNaNIn(s.F, j))

\* C11, amended: at every output index with a finite band sample the
\* average is a finite number that lies between the least and the greatest
\* of the finite band samples up to the rounding error of the arithmetic.
C11_WithinMinMaxRounded ==
    \A s \in AverageSites : \A j \in DOMAIN s.R.data :
        FiniteIn(s.F, j) # {} =>
            LET lo == MinIn(s.F, j, FiniteIn(s.F, j))
                hi == MaxIn(s.F, j, FiniteIn(s.F, j))
                eps == Slack(IF Abs(lo) > Abs(hi) THEN Abs(lo) ELSE Abs(hi))
            IN  /\ ~s.R.mask[j] /\ isfinite(s.R.data[j])
                /\ lo - eps <= s.R.data[j]
                /\ s.R.data[j] <= hi + eps

\* An average strictly between two different finite samples of its column,
\* and an average of a column with dropped samples whose finite samples are
\* equal and that rounding has moved off their value.
C11_Witness ==
    \E s \in AverageSites : \E j1, j2 \in DOMAIN s.R.data :
        /\ FiniteIn(s.F, j1) # {}
        /\ MinIn(s.F, j1, FiniteIn(s.F, j1)) < s.R.data[j1]
        /\ s.R.data[j1] < MaxIn(s.F, j1, FiniteIn(s.F, j1))
        /\ FiniteIn(s.F, j2) \notin {{}, BandOf(s.F)}
        /\ MinIn(s.F, j2, FiniteIn(s.F, j2)) = MaxIn(s.F, j2, FiniteIn(s.F, j2))
        /\ s.R.data[j2] # MinIn(s.F, j2, FiniteIn(s.F, j2))

\* Column j of F is the finite constant c on every row of the band.
ConstantIn(F, j, c) == isfinite(c) /\ \A i \in BandOf(F) : F[i][j] = c

\* The values of the band columns of F that are constant.
ConstantsOf(F, j) == {c \in {F[LatMax - LatMin + 1][j]} : ConstantIn(F, j, c)}

\* C12 as stated: the average of a band that is the constant c, no NaN in
\* it, is c at every output index.
C12_ConstantGivesConstant ==
    \A s \in AverageSites : \A j \in DOMAIN s.R.data :
        \A c \in ConstantsOf(s.F, j) : ~s.R.mask[j] /\ s.R.data[j] = c

\* C12, amended: the average of a band that is the constant c is c up to
\* the rounding error of the arithmetic, and exactly c when c is a power of
\* two (as the 2.0 of the 181 x 10 field, whose 10 averages are all 2.0).
C12_ConstantRounded ==
    \A s \in AverageSites : \A j \in DOMAIN s.R.data :
        \A c \in ConstantsOf(s.F, j) :
            /\ ~s.R.mask[j]
            /\ Abs(s.R.data[j] - c) <= Slack(Abs(c))
            /\ Abs(c) \in {Pow2(k) : k \in 0..Precision} => s.R.data[j] = c

\* The 181 x 10 field of all 2.0 has been averaged to ten values of 2.0.
C12_Witness ==
    /\ fig = "Figure5" /\ pc = "plot"
    /\ omps = ConstField(2, 10)
    /\ omps_area_average.data = [j \in 1..10 |-> 2]
    /\ \A j \in 1..10 : ~omps_area_average.mask[j]

---------------------------------------------------------------------------
(* More properties of the e-folding estimator.                             *)

\* The first place of the maximum of z.
FirstMax(z) == CHOOSE k \in ArgMax(z) : \A l \in ArgMax(z) : k <= l

\* The places from xm to the end of z whose value equals m / e.
EqualToMaxOverE(z, m, xm) == {k \in xm..Len(z) : z[k] * E_NUM = m * E_DEN}

\* C13 as stated: on the synthetic curve the value returned is 5, and
\* whenever exactly one sample at or after the peak of the zero-replaced
\* segment equals max / e, the value returned is its offset from the peak.
C13_OffsetOfExactSample ==
    Returned =>
        /\ data \in {ndarray(SyntheticCurve), Series(9, SyntheticCurve)} =>
              LastETime = 5
        /\ LET z == Segment(data)
               hits == EqualToMaxOverE(z, MaxOf(z), FirstMax(z))
           IN  Cardinality(hits) = 1 =>
                  \A k \in hits : LastETime = k - FirstMax(z)

\* Every sample of the zero-replaced segment z is zero, and there is one.
AllZero(z) == Len(z) > 0 /\ \A k \in DOMAIN z : z[k] = 0

\* C14: on a segment whose samples are all zero once the invalid ones are
\* replaced (zeros, NaN, masked, or a mix), the maximum and the sample
\* nearest to max / e are both found at index 0 and the value returned is 0.
C14_AllZeroGivesZero ==
    (Returned /\ AllZero(Segment(data))) =>
        x_max = 0 /\ x_e = 0 /\ LastETime = 0

\* The estimator has returned on a plain segment that mixes NaN and zeros.
C14_Witness ==
    /\ Returned /\ ~data.ma /\ AllZero(Segment(data))
    /\ \E k, l \in (Onset + 1)..Len(data.data) :
          isnan(data.data[k]) /\ data.data[l] = 0
    /\ LastETime = 0

---------------------------------------------------------------------------
(* Algebra of the masking.                                                 *)

\* The reference the mask the script holds now was built from.
ReferenceNow == IF MaskIsOfOmps THEN omps ELSE caliop

\* Masking a target with a reference of the mask's shape: the mask of
\* lines 57-58 multiplied into the target as on line 61.
Masking(target, ref) ==
    multiply(target, set_nan_where_isnan(ones(GridShape), ref))

\* The masked fields whose target and reference have the mask's shape.
SameShapeNow ==
    {p \in MaskedNow : p.target.shape = mask.shape
                       /\ ReferenceNow.shape = mask.shape}

\* C15: masking a masked field again with the same reference gives the
\* field masked once, cell by cell, NaN matching NaN.
C15_MaskingIdempotent ==
    \A p \in SameShapeNow :
        /\ p.out = Masking(p.target, ReferenceNow)
        /\ Masking(p.out, ReferenceNow) = p.out

\* A masked field that differs from its target and still holds a number.
C15_Witness ==
    \E p \in SameShapeNow :
        /\ p.out # p.target
        /\ \E idx \in DOMAIN p.out.data : p.out.data[idx] = -2
        /\ \E idx \in DOMAIN p.out.data : p.out.data[idx] = Inf

\* C16: with a reference that has no NaN cell the masked field equals the
\* target at every cell, the cells where the target is NaN included.
C16_ValidReferenceKeepsTarget ==
    \A p \in SameShapeNow :
        (\A idx \in DOMAIN ReferenceNow.data : ~isnan(ReferenceNow.data[idx]))
            => p.out = p.target

\* A target with a NaN cell masked with a reference that has none and that
\* holds an infinite cell.
C16_Witness ==
    \E p \in SameShapeNow :
        /\ \A idx \in DOMAIN ReferenceNow.data : ~isnan(ReferenceNow.data[idx])
        /\ \E idx \in DOMAIN ReferenceNow.data : ReferenceNow.data[idx] = Inf
        /\ \E idx \in DOMAIN p.target.data : isnan(p.target.data[idx])
        /\ \E idx \in DOMAIN p.target.data : p.target.data[idx] = -2
        /\ p.out = p.target

---------------------------------------------------------------------------
(* The weights of the average multiplied by a constant.                    *)

\* The constants the weights are multiplied by.
Scales == 2..MaxScale

\* The average of the band of F with the weights k * weighting[120:].
ScaledAverage(F, k) ==
    ma_average(masked_invalid(SliceFrom(F, BandStart)),
               [i \in DOMAIN SliceFrom(weighting, BandStart) |->
                  FMul(k, SliceFrom(weighting, BandStart)[i])],
               NCols(F))

\* The greatest magnitude of the finite band samples of column j.
MagnitudeIn(F, j) ==
    LET lo == MinIn(F, j, FiniteIn(F, j))
        hi == MaxIn(F, j, FiniteIn(F, j))
    IN  IF Abs(lo) > Abs(hi) THEN Abs(lo) ELSE Abs(hi)

\* C17 as stated: the average with every weight multiplied by the same
\* positive constant is the average with the weights themselves.
C17_ScaleInvariant ==
    \A s \in AverageSites : \A k \in Scales :
        ScaledAverage(s.F, k) = s.R

\* C17, amended: the average with every weight multiplied by a power of two
\* is the average with the weights themselves; with another positive
\* constant the same values are masked and the others differ by no more
\* than the rounding error of the two averages and of the scaled weights.
C17_ScaleInvariantRounded ==
    \A s \in AverageSites : \A k \in Scales :
        LET S == ScaledAverage(s.F, k)
        IN  /\ S.mask = s.R.mask
            /\ k \in {Pow2(e) : e \in 0..Precision} => S = s.R
            /\ \A j \in DOMAIN s.R.data :
                 ~s.R.mask[j] =>
                     Abs(S.data[j] - s.R.data[j])
                         <= 3 * Slack(MagnitudeIn(s.F, j))

\* An average of a column of different finite samples, some dropped, that
\* doubled weights leave as it is and tripled weights move.
C17_Witness ==
    \E s \in AverageSites : \E j \in DOMAIN s.R.data :
        /\ FiniteIn(s.F, j) \notin {{}, BandOf(s.F)}
        /\ MinIn(s.F, j, FiniteIn(s.F, j)) < MaxIn(s.F, j, FiniteIn(s.F, j))
        /\ ScaledAverage(s.F, 2).data[j] = s.R.data[j]
        /\ ScaledAverage(s.F, 3).data[j] # s.R.data[j]

---------------------------------------------------------------------------
(* Side effects.                                                           *)

\* The series the call that has returned was given.
PassedSeries ==
    CASE pc = "so2_ash_e_time" -> omps_area_average
      [] pc = "so2_only_e_time" -> so2_ash
      [] pc = "plot" -> so2_only

---------------------------------------------------------------------------
(* The index space of the e-folding estimator.                             *)

\* The first place of seq z (0-based) that holds the greatest of the values
\* z has at the places U, a non-empty set.
FirstGreatest(z, U) ==
    LET m == CHOOSE v \in {z[k] : k \in U} : \A k \in U : z[k] <= v
    IN  (CHOOSE k \in DOMAIN z : z[k] = m /\ \A l \in 1..(k - 1) : z[l] # m) - 1

\* C19 as stated: x_max is the index, in the array that was passed, of the
\* greatest of all its samples that are numbers.
C19_MaxOverEverySample ==
    Returned =>
        LET U == {k \in DOMAIN data.data :
                     ~data.mask[k] /\ ~isnan(data.data[k])}
        IN  U # {} => x_max = FirstGreatest(data.data, U)

\* C19, amended: e_folding_time drops the first 20 samples of the array it
\* is given and works on the index space of the rest.  x_max is the index,
\* counted from sample 20, of the first sample that equals the greatest of
\* the samples from sample 20 on that are not masked (NaN counting as 0),
\* and 0 when all are masked.
C19_MaxFromOnset ==
    Returned =>
        LET z == Segment(data)
            U == {k \in DOMAIN z :
                     ~data.mask[k + Onset] \/ isnan(data.data[k + Onset])}
        IN  /\ Len(data_copy.data) = Len(data.data) - Onset
            /\ x_max \in 0..(Len(z) - 1)
            /\ x_max = IF U = {} THEN 0 ELSE FirstGreatest(z, U)

\* The greatest sample of the series lies in its first 20 samples, away
\* from what e_folding_time has found.
C19_Witness ==
    /\ Returned
    /\ \E k \in 1..Onset :
         /\ ~isnan(data.data[k])
         /\ \A l \in DOMAIN data_copy.data : data_copy.data[l] < data.data[k]
    /\ \E l \in DOMAIN data_copy.data : data_copy.data[l] # data_copy.data[1]
    /\ data.data[x_max + Onset + 1] = data_copy.data[x_max + 1]

---------------------------------------------------------------------------
(* The band beyond the latitude axis.                                      *)

\* The fields the script averages, each with done: its averaging statement
\* has been executed.
AveragedFields ==
    (IF fig = "Figure5"
     THEN {[F |-> caliop, done |-> pc # "caliop_mean"],
           [F |-> omps,
            done |-> pc \notin {"caliop_mean", "caliop_area_average",
                                "omps_area_average"}]}
     ELSE {})
    \cup
    (IF fig = "Figure3"
     THEN {[F |-> omps_lon_averaged, done |-> pc # "omps_area_average"]}
     ELSE {})

\* The latitude axis of F ends at or before the start of the band.
BandBeyondAxis(F) == F.nlat <= BandStart

\* C20 as stated: when the band starts beyond the latitude axis the
\* averaging raises no error and the script continues.
C20_EmptyBandContinues ==
    \A f \in AveragedFields :
        (BandBeyondAxis(f.F) /\ f.done) => pc # "error"

\* C20, amended: when the band starts beyond the latitude axis the slice
\* clips to the empty band without an error, the average of the empty band
\* with the 61 weights raises ValueError, and the script does not continue.
C20_ClipsThenRaises ==
    \A f \in AveragedFields :
        BandBeyondAxis(f.F) =>
            /\ SliceFrom(Array(f.F), BandStart) = << >>
            /\ Len(SliceFrom(weighting, BandStart)) = LatMax - LatMin + 1 - BandStart
            /\ f.done => (pc = "error" /\ err = "ValueError" /\ ~ENABLED Next)

\* Figure3.py has stopped at the average of a field whose 120 latitude rows
\* end where the band starts.
C20_Witness ==
    /\ fig = "Figure3" /\ pc = "error" /\ err = "ValueError"
    /\ BandBeyondAxis(omps_lon_averaged)
    /\ Len(Array(omps_lon_averaged)) = BandStart
    /\ SliceFrom(Array(omps_lon_averaged), BandStart) = << >>
    /\ omps_area_average = Unset /\ data = Unset

---------------------------------------------------------------------------
(* Figure8.py: the support of the masked model fields.                     *)

\* Field m is NaN at every cell where the observational field obs is NaN.
NaNWhereNaN(m, obs) ==
    \A idx \in DOMAIN obs.data : isnan(obs.data[idx]) => isnan(m.data[idx])

\* C21: when the four model fields of Figure8.py are masked, each 510 nm
\* field is NaN wherever omps_510 is NaN and each 865 nm field is NaN
\* wherever omps_869 is NaN.
C21_MaskedByOwnWavelength ==
    (fig = "Figure8" /\ pc = "averages") =>
        /\ NaNWhereNaN(so2_ash_550_masked, omps_510)
        /\ NaNWhereNaN(so2_only_550_masked, omps_510)
        /\ NaNWhereNaN(so2_ash_865_masked, omps_869)
        /\ NaNWhereNaN(so2_only_865_masked, omps_869)

---------------------------------------------------------------------------
(* The band and its weights.                                               *)

\* C22: the latitude axis has 181 points; its slice [120:] is the 61
\* latitudes 30..90 in order; the slice of the weights has the same length;
\* and at every average of a field on that axis the band has 61 rows, row k
\* of the band is the field's row of latitude 29 + k, and the weight the
\* average gives a sample of that row is the cosine of that latitude.
C22_BandIsThirtyToNinety ==
    LET lat == SliceFrom(latitude, BandStart)
        w == SliceFrom(weighting, BandStart)
    IN  /\ Len(latitude) = 181
        /\ Len(lat) = 61 /\ Len(w) = 61
        /\ \A k \in 1..61 : lat[k] = 29 + k
        /\ \A s \in AverageSites :
             LET band == SliceFrom(s.F, BandStart)
                 a == masked_invalid(band)
             IN  /\ Len(s.F) = 181 /\ Len(band) = 61
                 /\ \A k \in 1..61 : \A i \in DOMAIN s.F :
                      latitude[i] = lat[k] => band[k] = s.F[i]
                 /\ \A k \in 1..61 : \A j \in DOMAIN s.R.data :
                      ~a.mask[k][j] =>
                          avg_wgt(a, w, k, j) = CosMilli[lat[k] + 1]

\* An average of a field that is 100 at 30N, 200 between and NaN at 90N.
C22_Witness ==
    \E s \in AverageSites : \E j \in DOMAIN s.R.data :
        LET band == SliceFrom(s.F, BandStart)
        IN  /\ band[1][j] = 100 /\ band[2][j] = 200 /\ band[60][j] = 200
            /\ isnan(band[61][j])
            /\ ~s.R.mask[j]

---------------------------------------------------------------------------
(* The dates of the panels of Figure1.py and Figure2.py.                   *)

\* The number a sequence of digit characters writes.
DigitValue(c) == CHOOSE n \in 0..9 : Digits[n + 1] = c
RECURSIVE Number(_)
Number(cs) ==
    IF cs = << >> THEN 0
    ELSE 10 * Number(SubSeq(cs, 1, Len(cs) - 1)) + DigitValue(cs[Len(cs)])

\* The day and the month word a title shows.
TitleDay(t) == Number(SubSeq(t, 2, Len(t) - 2))
TitleMonth(t) == t[Len(t) - 1]

\* 22-30 June 2019 (Figure1.py lines 10-18) and 22 June-1 July 2019
\* (Figure2.py lines 10-16).
InPeriod(t) ==
    \/ TitleMonth(t) = " June 2019" /\ TitleDay(t) \in 22..30
    \/ fig = "Figure2" /\ TitleMonth(t) = " July 2019" /\ TitleDay(t) = 1

\* C23: the panel loops raise nothing; every title shows a date of the
\* period of the docstring; the day_list entry of every panel exists, and
\* the title says June exactly when its month is 06 and July when it is 07;
\* every subplot position is inside the grid; and in Figure2.py the data
\* indices are 0, 1, ..., one per panel, the panel of index d titled with
\* the day d days after 22 June.
C23_PanelsInsidePeriod ==
    fig \in {"Figure1", "Figure2"} =>
        /\ pc # "error"
        /\ Len(titles) \in {Len(subplots), Len(subplots) - 1}
        /\ \A k \in DOMAIN titles :
             LET e == title_entry(subplots[k].i)
                 entry == day_list[e + 1]
             IN  /\ e \in 0..(Len(day_list) - 1)
                 /\ InPeriod(titles[k])
                 /\ TitleDay(titles[k]) = Number(SubSeq(entry, 3, 4))
                 /\ TitleMonth(titles[k]) = " June 2019"
                        <=> SubSeq(entry, 1, 2) = <<"0", "6">>
                 /\ TitleMonth(titles[k]) = " July 2019"
                        <=> SubSeq(entry, 1, 2) = <<"0", "7">>
        /\ \A k \in DOMAIN subplots :
             subplots[k].pos = k
                 /\ k <= (IF fig = "Figure1" THEN 6 * 3 ELSE 5 * 2)
        /\ fig = "Figure2" =>
             \A k \in DOMAIN titles :
                /\ subplots[k].data = k - 1 /\ subplots[k].data \in 0..9
                /\ (IF k <= 9 THEN TitleDay(titles[k]) = 22 + subplots[k].data
                               /\ TitleMonth(titles[k]) = " June 2019"
                    ELSE TitleDay(titles[k]) = 1
                               /\ TitleMonth(titles[k]) = " July 2019")
        /\ pc = "colorbar" =>
             Len(titles) = (IF fig = "Figure1" THEN 15 ELSE 10)

\* Figure2.py has left its loop with its last panel titled 01 July 2019.
C23_Witness ==
    /\ fig = "Figure2" /\ pc = "colorbar"
    /\ Len(titles) = 10
    /\ titles[10] = <<"", "0", "1", " July 2019", " - SO2only">>
    /\ titles[1] = <<"", "2", "2", " June 2019", " - SO2only">>
    /\ subplots[10] = [pos |-> 10, data |-> 9, i |-> 30]

---------------------------------------------------------------------------
(* Figure7.py: the combined masked field.                                  *)

\* The six fields of Figure7.py have 366 day columns.
FullDays ==
    \A a \in {caliop, omps, so2_ash_caliop, so2_ash_omps,
              so2_only_caliop, so2_only_omps} : a.shape = <<MRows, Days>>

\* The model value v restricted to where the observation o is not NaN.
Restricted(v, o) == Mul(v, IF isnan(o) THEN NaN ELSE 1)

\* Field m holds, in the columns 0..146, the model field mc where caliop is
\* not NaN and, in the columns 147..365, the model field mo where omps is
\* not NaN.
Combined(m, mc, mo) ==
    /\ m.shape = <<MRows, Days>>
    /\ \A idx \in Indices(<<MRows, Days>>) :
         /\ idx[2] \in 0..146 =>
               m.data[idx] = Restricted(mc.data[idx], caliop.data[idx])
         /\ idx[2] \in 147..365 =>
               m.data[idx] = Restricted(mo.data[idx], omps.data[idx])
         /\ isnan(m.data[idx]) =>
               \/ isnan((IF idx[2] < CaliopDays THEN mc ELSE mo).data[idx])
               \/ isnan((IF idx[2] < CaliopDays THEN caliop ELSE omps).data[idx])

\* C24: with fields of 366 day columns Figure7.py raises nothing, and when
\* both combined fields are assigned each holds the CALIOP-limited model
\* values masked by CALIOP in the columns 0..146 and the OMPS-limited model
\* values masked by OMPS in the columns 147..365; the two ranges are
\* disjoint and cover the 366 columns, and a cell is NaN only where its
\* model value or its observation is NaN.
C24_OneSourcePerColumn ==
    (fig = "Figure7" /\ FullDays) =>
        /\ pc # "error"
        /\ (0..(CaliopDays - 1)) \cap (CaliopDays..(Days - 1)) = {}
        /\ (0..146) \cup (147..365) = 0..(Days - 1)
        /\ CaliopDays + OmpsDays = Days
        /\ pc \in {"so2_only_masked", "so2_only_masked_caliop",
                   "so2_only_masked_omps", "averages"} =>
              Combined(so2_ash_masked, so2_ash_caliop, so2_ash_omps)
        /\ pc = "averages" =>
              Combined(so2_only_masked, so2_only_caliop, so2_only_omps)

\* Both fields are assigned, with NaN from CALIOP in column 146, NaN from
\* OMPS in column 147 and numbers of both sources beside them.
C24_Witness ==
    /\ fig = "Figure7" /\ pc = "averages" /\ FullDays
    /\ isnan(caliop.data[<<0, 146>>]) /\ isnan(omps.data[<<0, 147>>])
    /\ isnan(so2_ash_masked.data[<<0, 146>>])
    /\ isnan(so2_ash_masked.data[<<0, 147>>])
    /\ so2_ash_masked.data[<<1, 146>>] = 2
    /\ so2_ash_masked.data[<<1, 147>>] = 3
    /\ isnan(so2_only_masked.data[<<0, 0>>])
    /\ so2_only_masked.data[<<1, 0>>] = 4
    /\ so2_only_masked.data[<<1, 365>>] = 6

---------------------------------------------------------------------------
(* The range of the e-folding time.                                        *)

\* C25: x_max is an index of the segment from the eruption day on, and when
\* e_folding_time has returned its value is an integer from 0 to
\* n - 1 - x_max, n the length of that segment: x_e is not before x_max and
\* not past the last sample.
C25_ResultInRange ==
    /\ (fig = "Figure3" /\ epc \in {"x_e", "return"}) =>
          x_max \in 0..(Len(data_copy.data) - 1)
    /\ Returned =>
          /\ Len(data.data) >= Onset + 1
          /\ x_e \in x_max..(Len(data_copy.data) - 1)
          /\ LastETime = x_e - x_max
          /\ LastETime \in 0..(Len(data_copy.data) - 1 - x_max)

\* A call has returned the greatest value the segment allows, and it is
\* not 0.
C25_Witness ==
    /\ Returned
    /\ Len(data_copy.data) >= 3
    /\ LastETime = Len(data_copy.data) - 1 - x_max
    /\ LastETime > 0

---------------------------------------------------------------------------
(* The e-folding time beside the threshold crossing.                       *)

\* z[k] < m / e
BelowMaxOverE(z, m, k) == z[k] * E_NUM < m * E_DEN

\* From its peak on, z is strictly decreasing and has a sample below
\* max / e.
DecaysBelowMaxOverE(z) ==
    /\ \A k \in FirstMax(z)..(Len(z) - 1) : z[k + 1] < z[k]
    /\ \E k \in FirstMax(z)..Len(z) : BelowMaxOverE(z, MaxOf(z), k)

\* The first place from the peak on whose sample is below max / e.
Crossing(z) ==
    CHOOSE k \in FirstMax(z)..Len(z) :
        /\ BelowMaxOverE(z, MaxOf(z), k)
        /\ \A l \in FirstMax(z)..(k - 1) : ~BelowMaxOverE(z, MaxOf(z), l)

\* C26: on a zero-replaced segment that is strictly decreasing after its
\* peak and has a sample below max / e, the value returned is the offset
\* from the peak of the first sample below max / e or of the sample just
\* before it, and of the two the one that is no farther from max / e.
C26_AdjacentToCrossing ==
    (Returned /\ Len(data.data) > Onset) =>
        LET z == Segment(data)
            xm == FirstMax(z)
            c == Crossing(z)
            near == {k \in {c - 1, c} : k >= xm}
        IN  DecaysBelowMaxOverE(z) =>
               /\ xm + LastETime \in near
               /\ \A k \in near : NoFarther(z, MaxOf(z), xm + LastETime, k)

---------------------------------------------------------------------------
(* Ties in the two searches.                                               *)

\* C27: when the maximum of the zero-replaced segment is at several places
\* x_max is the first of them, and when several samples from x_max on are
\* equally near to max / e x_e is the first of them.
C27_TiesToLowestIndex ==
    Returned =>
        LET z == Segment(data)
            m == MaxOf(z)
            near == Nearest(z, m, x_max + 1)
        IN  /\ Cardinality(ArgMax(z)) > 1 => x_max + 1 = FirstMax(z)
            /\ Cardinality(near) > 1 =>
                  /\ x_e + 1 \in near
                  /\ \A k \in near : x_e + 1 <= k

---------------------------------------------------------------------------
(* The weights and their sum.                                              *)

\* C28 as stated: every weight of the band 30..90 is non-negative, and the
\* divisor of the average is greater than 0 at every output index with a
\* band sample that is not NaN.
C28_PositiveDivisorNotNaN ==
    /\ \A i \in DOMAIN latitude :
          (latitude[i] >= 30 /\ latitude[i] <= 90) => weighting[i] >= 0
    /\ \A s \in AverageSites : \A j \in DOMAIN s.R.data :
          NotNaNIn(s.F, j) # {} =>
              /\ avg_scl(masked_invalid(SliceFrom(s.F, BandStart)),
                         SliceFrom(weighting, BandStart), j) > 0
              /\ ~s.R.mask[j]

\* C28, amended: every weight of the band 30..90 is non-negative, and the
\* divisor of the average, the sum of the weights of the finite samples, is
\* greater than 0 at every output index with a finite band sample, the one
\* with only the sample of latitude 90 included.
C28_PositiveDivisor ==
    /\ \A i \in DOMAIN latitude :
          (latitude[i] >= 30 /\ latitude[i] <= 90) => weighting[i] >= 0
    /\ \A s \in AverageSites : \A j \in DOMAIN s.R.data :
          FiniteIn(s.F, j) # {} =>
              /\ avg_scl(masked_invalid(SliceFrom(s.F, BandStart)),
                         SliceFrom(weighting, BandStart), j) > 0
              /\ ~s.R.mask[j]

\* An average of a column whose only finite sample is the one of 90N.
C28_Witness ==
    \E s \in AverageSites : \E j \in DOMAIN s.R.data :
        /\ FiniteIn(s.F, j) = {i \in DOMAIN s.F : latitude[i] = 90}
        /\ ~s.R.mask[j]
        /\ s.R.data[j] = s.F[LatMax - LatMin + 1][j]

=============================================================================
